---- MODULE Spec2Model ----
(***************************************************************************)
(* Verification model of the data pipeline of deepspeech.pytorch:          *)
(*   data/data_loader_aug.py  (parser, dataset, collation, samplers)       *)
(*   data/bpe_labels.py       (subword label encoder)                      *)
(*   data/phoneme_labels.py   (phoneme label encoder)                      *)
(* Python lists are modelled as sequences; a Python index i is the         *)
(* sequence position i + 1.                                                *)
(***************************************************************************)
EXTENDS Integers, Sequences, FiniteSets, TLC

(***************************************************************************)
(* Bounds of the model.                                                    *)
(***************************************************************************)
MaxN == 5
MaxBatch == 2
MaxReplicas == 3
MaxEpoch == 2
MaxBins == 3

(***************************************************************************)
(* Generic helpers for Python list operations.                             *)
(***************************************************************************)
Min(a, b) == IF a <= b THEN a ELSE b

Max(a, b) == IF a >= b THEN a ELSE b

Range(s) == {s[i] : i \in 1..Len(s)}

\* a list or an array held in memory: its elements are computed once
AsList(s) == SubSeq(s, 1, Len(s))

\* s[:k] for k >= 0: a slice never reads past the end of the list
PyPrefix(s, k) == SubSeq(s, 1, Min(k, Len(s)))

\* s[offset::step] for offset >= 0, step >= 1
PyStride(s, offset, step) ==
    IF offset >= Len(s) THEN <<>>
    ELSE [i \in 1..((Len(s) - offset + step - 1) \div step) |-> s[offset + (i - 1) * step + 1]]

MutMakeBins(idseq, batch_size) ==
    [k \in 1..((Len(idseq) + batch_size - 1) \div batch_size) |->
        SubSeq(idseq, (k - 1) * batch_size + 1, Min(k * batch_size + 1, Len(idseq)))]

\* [ids[i:i + batch_size] for i in range(0, len(ids), batch_size)]
MakeBins(idseq, batch_size) ==
    [k \in 1..((Len(idseq) + batch_size - 1) \div batch_size) |->
        SubSeq(idseq, (k - 1) * batch_size + 1, Min(k * batch_size, Len(idseq)))]

\* list(range(0, n))
PyRange(n) == [i \in 1..n |-> i - 1]

(***************************************************************************)
(* State.                                                                  *)
(***************************************************************************)
VARIABLES
    sampler_class,   \* the class of the sampler object, or the exception its __init__ raised
    bins0,           \* the bins as the sampler's __init__ built them
    last_shuffle,    \* the epoch handed to the last shuffle call, -1 before the first
    bins,            \* DistributedBucketingSampler.bins
    num_replicas,    \* DistributedBucketingSampler.num_replicas
    num_samples,     \* DistributedBucketingSampler.num_samples
    total_size,      \* DistributedBucketingSampler.total_size
    samples,         \* per rank: what __iter__ returned in the current epoch
    a,               \* spect_rolling_max_normalize: the spectrogram argument
    window,          \* spect_rolling_max_normalize: the window argument
    rolling_max,     \* spect_rolling_max_normalize: outcome of the call
    batch,           \* the list of per-example tuples handed to the collate function
    collate_fn,      \* DataLoader.collate_fn: which collate function the loader uses
    collated,        \* outcome of the collate call
    encoder,         \* which label encoder is in use: "Labels" (bpe) or "PhonemeLabels"
    spm,             \* Labels.spm: the pieces of the loaded segmenter model, by id
    labels_map,      \* Labels.labels_map, a dict in insertion order
    phoneme_map,     \* PhonemeLabels.phoneme_map
    text,            \* the text handed to parse
    sp_transcript,   \* Labels.parse: the pieces the segmenter emitted
    transcript,      \* outcome of parse
    rendered,        \* outcome of render_transcript(parse(text))
    files,           \* the audio files on disk: path -> decoded samples
    cache,           \* the feature cache directory: file name -> stored object
    augment,         \* SpectrogramParser.augment
    aug_prob,        \* SpectrogramDataset.aug_prob (noise_prob), in percent
    aug_prob_8khz,   \* SpectrogramDataset.aug_prob_8khz, in percent
    denoise,         \* SpectrogramDataset.denoise
    calls,           \* the parse_audio / load_audio_cache calls made so far, with their results
    manifest,        \* the manifest csv on disk: its rows, each a tuple of fields
    curriculum_file, \* the curriculum csv handed to the constructor (given = FALSE: None)
    ds,              \* outcome of SpectrogramDataset.__init__: "none", "ok" or the exception
    all_ids,         \* SpectrogramDataset.all_ids
    ids,             \* SpectrogramDataset.ids
    size,            \* SpectrogramDataset.size
    curriculum,      \* SpectrogramDataset.curriculum: wav -> record
    domains,         \* SpectrogramDataset.domains
    curriculum0,     \* the curriculum as __init__ left it
    sampled,         \* what Curriculum.sample returned in the last set_curriculum_epoch
    saved,           \* the files save_curriculum wrote last
    last,            \* the last call made on the dataset, its arguments and what it raised
    reloaded,        \* a second dataset, constructed from the manifest and the saved curriculum
    epoch_calls,     \* the set_curriculum_epoch calls made so far: arguments, store and outcome
    reader,          \* a get_curriculum_info call in progress: position and the values read
    saver,           \* a save_curriculum call in progress: position and the rows written
    TS_CACHE,        \* the module-level dict TS_CACHE: transcript path -> codes
    ts_labels,       \* the vocabulary behind self.labels of each dataset of the process
    ts_files,        \* the text of each transcript file
    ts_call          \* the last parse_transcript call: dataset, path and what it returned

samplerVars == <<sampler_class, bins0, last_shuffle, bins, num_replicas, num_samples, total_size,
                 samples>>

rollVars == <<a, window, rolling_max>>

collateVars == <<batch, collate_fn, collated>>

labelVars == <<encoder, spm, labels_map, phoneme_map, text, sp_transcript, transcript, rendered>>

parserVars == <<files, cache, augment, aug_prob, aug_prob_8khz, denoise, calls>>

datasetVars == <<manifest, curriculum_file, ds, all_ids, ids, size, curriculum, domains,
                 curriculum0, sampled, saved, last, reloaded, epoch_calls, reader, saver>>

transcriptVars == <<TS_CACHE, ts_labels, ts_files, ts_call>>

vars == <<samplerVars, rollVars, collateVars, labelVars, parserVars, datasetVars, transcriptVars>>

exceptSampler == <<rollVars, collateVars, labelVars, parserVars, datasetVars, transcriptVars>>

exceptRoll == <<samplerVars, collateVars, labelVars, parserVars, datasetVars, transcriptVars>>

exceptCollate == <<samplerVars, rollVars, labelVars, parserVars, datasetVars, transcriptVars>>

exceptLabels == <<samplerVars, rollVars, collateVars, parserVars, datasetVars, transcriptVars>>

exceptParser == <<samplerVars, rollVars, collateVars, labelVars, datasetVars, transcriptVars>>

exceptDataset == <<samplerVars, rollVars, collateVars, labelVars, parserVars, transcriptVars>>

\* the parts of the program a specification does not exercise stay idle
SamplerIdle ==
    /\ sampler_class = "none"
    /\ bins0 = <<>>
    /\ last_shuffle = -1
    /\ bins = <<>>
    /\ num_replicas = 0
    /\ num_samples = 0
    /\ total_size = 0
    /\ samples = <<>>

RollIdle ==
    /\ a = <<>>
    /\ window = 0
    /\ rolling_max = [st |-> "none", val |-> <<>>]

CollateIdle ==
    /\ batch = <<>>
    /\ collate_fn = "none"
    /\ collated = [st |-> "none"]

LabelsIdle ==
    /\ encoder = "none"
    /\ spm = <<>>
    /\ labels_map = <<>>
    /\ phoneme_map = <<>>
    /\ text = <<>>
    /\ sp_transcript = <<>>
    /\ transcript = [st |-> "none", codes |-> <<>>]
    /\ rendered = [st |-> "none", text |-> <<>>]

ParserIdle ==
    /\ files = <<>>
    /\ cache = <<>>
    /\ augment = FALSE
    /\ aug_prob = 0
    /\ aug_prob_8khz = 0
    /\ denoise = FALSE
    /\ calls = <<>>

\* no call yet: n counts the calls made on the constructed dataset
NoCall ==
    [op |-> "none", raised |-> "none", n |-> 0, epoch |-> 0, sample |-> FALSE, num |-> 0, den |-> 1,
     args |-> <<>>]

NotSaved == [written |-> FALSE, rows |-> <<>>, stats |-> <<0, 0>>]

NotReloaded == [st |-> "none", curriculum |-> <<>>]

\* no get_curriculum_info call is in progress
NoReader == [pc |-> "idle", item |-> <<>>, text |-> "", cer |-> 0, times_used |-> 0, from |-> <<>>]

\* no save_curriculum call is in progress
NoSaver == [pc |-> "idle", todo |-> <<>>, rows |-> <<>>]

DatasetIdle ==
    /\ manifest = <<>>
    /\ curriculum_file = [given |-> FALSE, rows |-> <<>>]
    /\ ds = "none"
    /\ all_ids = <<>>
    /\ ids = <<>>
    /\ size = 0
    /\ curriculum = <<>>
    /\ domains = {}
    /\ curriculum0 = <<>>
    /\ sampled = <<>>
    /\ saved = NotSaved
    /\ last = NoCall
    /\ reloaded = NotReloaded
    /\ epoch_calls = {}
    /\ reader = NoReader
    /\ saver = NoSaver

NoTranscriptCall == [n |-> 0, dataset |-> 0, path |-> "", st |-> "none", codes |-> <<>>]

TranscriptIdle ==
    /\ TS_CACHE = <<>>
    /\ ts_labels = <<>>
    /\ ts_files = <<>>
    /\ ts_call = NoTranscriptCall

IdleExceptSampler == RollIdle /\ CollateIdle /\ LabelsIdle /\ ParserIdle /\ DatasetIdle /\ TranscriptIdle

IdleExceptRoll == SamplerIdle /\ CollateIdle /\ LabelsIdle /\ ParserIdle /\ DatasetIdle /\ TranscriptIdle

IdleExceptCollate == SamplerIdle /\ RollIdle /\ LabelsIdle /\ ParserIdle /\ DatasetIdle /\ TranscriptIdle

IdleExceptLabels == SamplerIdle /\ RollIdle /\ CollateIdle /\ ParserIdle /\ DatasetIdle /\ TranscriptIdle

IdleExceptParser == SamplerIdle /\ RollIdle /\ CollateIdle /\ LabelsIdle /\ DatasetIdle /\ TranscriptIdle

IdleExceptDataset == SamplerIdle /\ RollIdle /\ CollateIdle /\ LabelsIdle /\ ParserIdle /\ TranscriptIdle

(***************************************************************************)
(* DistributedBucketingSampler                                             *)
(***************************************************************************)
NotIterated == [st |-> "none", bins |-> <<>>]

\* torch.randperm(n, generator=g) with g.manual_seed(epoch): a permutation of
\* 0..n-1 that is a function of n and the seed alone.  The generator's actual
\* output is not reproduced; a rotation by the seed, reversed for odd seeds,
\* stands for it.
RandPerm(n, seed) ==
    [i \in 1..n |-> IF seed % 2 = 0 THEN (i - 1 + seed) % n
                    ELSE (n - i + seed) % n]

\* self.bins + self.bins[:(self.total_size - len(self.bins))]
PaddedBins(bs, total) == bs \o PyPrefix(bs, total - Len(bs))

MutIterResult(bs, total, replicas, rank) ==
    LET padded == PaddedBins(bs, total)
    IN  IF Len(padded) # total
        THEN [st |-> "AssertionError", bins |-> <<>>]
        ELSE [st |-> "ok",
              bins |-> SubSeq(padded, rank + 1, Min(rank + (total \div replicas), Len(padded)))]

\* DistributedBucketingSampler.__iter__ on the replica with the given rank
IterResult(bs, total, replicas, rank) ==
    LET padded == PaddedBins(bs, total)
    IN  IF Len(padded) # total
        THEN [st |-> "AssertionError", bins |-> <<>>]
        ELSE [st |-> "ok", bins |-> PyStride(padded, rank, replicas)]

\* the orders np.random.shuffle can leave a list in
Shuffles(s) ==
    {[i \in 1..Len(s) |-> s[p[i]]] : p \in {q \in [1..Len(s) -> 1..Len(s)] : Range(q) = 1..Len(s)}}

\* [self.bins[i] for i in bin_ids], bin_ids = torch.randperm seeded with epoch
ShuffledBins(bs, epoch) == [i \in 1..Len(bs) |-> bs[RandPerm(Len(bs), epoch)[i] + 1]]

\* BucketingSampler(data_source, batch_size)
InitBucketing ==
    \E n \in 1..MaxN, batch_size \in 1..MaxBatch :
        /\ Len(MakeBins(PyRange(n), batch_size)) <= MaxBins
        /\ sampler_class = "BucketingSampler"
        /\ bins = MakeBins(PyRange(n), batch_size)
        /\ bins0 = bins
        /\ last_shuffle = -1
        /\ num_replicas = 0
        /\ num_samples = 0
        /\ total_size = 0
        /\ samples = <<>>
        /\ IdleExceptSampler

InitSampler ==
    \E n \in 1..MaxN, batch_size \in 1..MaxBatch, R \in 1..MaxReplicas :
        /\ sampler_class = "DistributedBucketingSampler"
        /\ bins = MakeBins(PyRange(n), batch_size)
        /\ bins0 = bins
        /\ last_shuffle = -1
        /\ num_replicas = R
        /\ num_samples = (Len(MakeBins(PyRange(n), batch_size)) + R - 1) \div R
        /\ total_size = ((Len(MakeBins(PyRange(n), batch_size)) + R - 1) \div R) * R
        /\ samples = [r \in 0..(R - 1) |-> NotIterated]
        /\ IdleExceptSampler

\* __iter__ called by the replica `rank` (every replica holds the same bins)
DistIter(rank) ==
    /\ sampler_class = "DistributedBucketingSampler"
    /\ rank \in 0..(num_replicas - 1)
    /\ samples[rank].st = "none"
    /\ samples' = [samples EXCEPT ![rank] = IterResult(bins, total_size, num_replicas, rank)]
    /\ UNCHANGED <<sampler_class, bins0, last_shuffle, bins, num_replicas, num_samples, total_size>>
    /\ UNCHANGED exceptSampler

\* shuffle(epoch), called on every replica with the same epoch: starts an epoch
DistShuffle(epoch) ==
    /\ sampler_class = "DistributedBucketingSampler"
    /\ bins' = ShuffledBins(bins, epoch)
    /\ last_shuffle' = epoch
    /\ samples' = [r \in 0..(num_replicas - 1) |-> NotIterated]
    /\ UNCHANGED <<sampler_class, bins0, num_replicas, num_samples, total_size>>
    /\ UNCHANGED exceptSampler

\* BucketingSampler.__iter__, run to its end: every bin is shuffled in place
\* and yielded; samples[0] holds the bins the generator yielded
BucketIter ==
    /\ sampler_class = "BucketingSampler"
    /\ bins' \in {bs \in [1..Len(bins) -> UNION {Shuffles(bins[i]) : i \in 1..Len(bins)}] :
                    \A i \in 1..Len(bins) : bs[i] \in Shuffles(bins[i])}
    /\ samples' = (0 :> [st |-> "yielded", bins |-> bins'])
    /\ UNCHANGED <<sampler_class, bins0, last_shuffle, num_replicas, num_samples, total_size>>
    /\ UNCHANGED exceptSampler

\* BucketingSampler.shuffle(epoch): np.random.shuffle(self.bins)
BucketShuffle(epoch) ==
    /\ sampler_class = "BucketingSampler"
    /\ bins' \in Shuffles(bins)
    /\ last_shuffle' = epoch
    /\ UNCHANGED <<sampler_class, bins0, num_replicas, num_samples, total_size, samples>>
    /\ UNCHANGED exceptSampler

NextSampler ==
    \/ \E rank \in 0..(MaxReplicas - 1) : DistIter(rank)
    \/ \E epoch \in 0..MaxEpoch : DistShuffle(epoch)

SpecSampler == InitSampler /\ [][NextSampler]_vars

InitShuffle == InitSampler \/ InitBucketing

NextShuffle ==
    \/ NextSampler
    \/ BucketIter
    \/ \E epoch \in 0..MaxEpoch : BucketShuffle(epoch)

\* both sampler classes that have a shuffle
SpecShuffle == InitShuffle /\ [][NextShuffle]_vars

(***************************************************************************)
(* C1                                                                      *)
(***************************************************************************)
AllRanksIterated == \A r \in 0..(num_replicas - 1) : samples[r].st = "ok"

HandedTo(r) == Range(samples[r].bins)

\* C1 (as claimed): once every rank has iterated in an epoch, the union of
\* the rank lists is the padded bin set and no bin was handed to two
\* different ranks.
C1_DisjointRanks ==
    AllRanksIterated =>
        /\ UNION {HandedTo(r) : r \in 0..(num_replicas - 1)} = Range(PaddedBins(bins, total_size))
        /\ \A r1, r2 \in 0..(num_replicas - 1) : r1 # r2 => HandedTo(r1) \cap HandedTo(r2) = {}

\* C1 (amended): every position of the padded bin list goes to exactly one
\* rank (position p to rank p mod R), so the rank lists together are the
\* padded list; a bin reaches two different ranks only if the wrap-around
\* padding repeated it, and never when R divides B; when the padding cannot
\* reach total_size, __iter__ raises on every rank and hands out nothing.
C1_PositionsPartitioned ==
    LET padded == PaddedBins(bins, total_size)
        B == Len(bins)
        R == num_replicas
    IN  \A r \in 0..(R - 1) :
            /\ samples[r].st = "AssertionError" <=>
                    (samples[r].st # "none" /\ total_size - B > B)
            /\ samples[r].st = "ok" =>
                /\ Len(samples[r].bins) = num_samples
                /\ \A k \in 1..num_samples : samples[r].bins[k] = padded[(k - 1) * R + r + 1]
                /\ \A r2 \in 0..(R - 1) :
                      (r2 # r /\ samples[r2].st = "ok") =>
                          /\ HandedTo(r) \cap HandedTo(r2) \subseteq Range(PyPrefix(bins, total_size - B))
                          /\ (B % R = 0 => HandedTo(r) \cap HandedTo(r2) = {})
                /\ AllRanksIterated =>
                      UNION {HandedTo(q) : q \in 0..(R - 1)} = Range(bins)

\* a padded epoch in which every rank has iterated
C1_Witness ==
    /\ AllRanksIterated
    /\ num_replicas > 1
    /\ total_size > Len(bins)
    /\ \E r1, r2 \in 0..(num_replicas - 1) : r1 # r2 /\ HandedTo(r1) \cap HandedTo(r2) # {}

(***************************************************************************)
(* SpectrogramParser.spect_rolling_max_normalize                           *)
(* A spectrogram is a sequence of frequency rows, each a sequence of       *)
(* frames: a[f][t].                                                        *)
(***************************************************************************)
MaxFreq == 2
MaxFrames == 3
MaxWindow == 4
MaxMagnitude == 2
DefaultWindow == 50

Zeros(n) == [i \in 1..n |-> 0]

RECURSIVE MaxBetween(_, _, _)
MaxBetween(s, lo, hi) ==
    IF lo = hi THEN s[lo]
    ELSE LET mid == (lo + hi) \div 2
             l == MaxBetween(s, lo, mid)
             r == MaxBetween(s, mid + 1, hi)
         IN  IF l >= r THEN l ELSE r

\* np.max over a non-empty axis
SeqMax(s) == CHOOSE x \in Range(s) : \A i \in 1..Len(s) : s[i] <= x

Matrices(F, T, vals) == [1..F -> [1..T -> vals]]

MutPadWidths(w) == <<w, 0>>

\* npad = ((0, 0), (window//2, window-window//2))
PadWidths(w) == <<w \div 2, w - (w \div 2)>>

\* np.pad(a, pad_width=npad, mode='constant', constant_values=0)
PadFrames(m, w) ==
    AsList([f \in 1..Len(m) |-> Zeros(PadWidths(w)[1]) \o m[f] \o Zeros(PadWidths(w)[2])])

\* shape = b.shape[:-1] + (b.shape[-1] - window, window)
RollingShape(b, w) == <<Len(b), Len(b[1]) - w, w>>

\* as_strided(b, shape, strides = b.strides + (b.strides[-1],)):
\* rolling[f, t, k] reads b[f, t + k]
Rolling(b, w) ==
    AsList([f \in 1..RollingShape(b, w)[1] |->
        AsList([t \in 1..RollingShape(b, w)[2] |-> SubSeq(b[f], t, t + RollingShape(b, w)[3] - 1)])])

\* rolling_max = np.max(rolling, axis=-1)
RollingMax(rolling) ==
    AsList([f \in 1..Len(rolling) |->
        AsList([t \in 1..Len(rolling[f]) |-> SeqMax(rolling[f][t])])])

\* assert rolling_max.shape == a.shape; return rolling_max.max(axis=0)
FrameMax(m, rmax) ==
    IF <<Len(rmax), Len(rmax[1])>> # <<Len(m), Len(m[1])>>
    THEN [st |-> "AssertionError", val |-> <<>>]
    ELSE [st |-> "ok",
          val |-> AsList([t \in 1..Len(rmax[1]) |->
                      SeqMax(AsList([f \in 1..Len(rmax) |-> rmax[f][t]]))])]

\* the whole call: [st, val] with val = rolling_max.max(axis=0)
spect_rolling_max_normalize(m, w) ==
    CHOOSE out \in {FrameMax(m, rmax) :
                        rmax \in {RollingMax(rolling) :
                            rolling \in {Rolling(b, w) : b \in {PadFrames(m, w)}}}} : TRUE

InitRoll ==
    \E F \in 1..MaxFreq, T \in 1..MaxFrames :
        /\ a \in Matrices(F, T, 0..MaxMagnitude)
        /\ window \in (1..MaxWindow) \cup {DefaultWindow}
        /\ rolling_max = [st |-> "none", val |-> <<>>]
        /\ IdleExceptRoll

RollingMaxNormalize ==
    /\ rolling_max.st = "none"
    /\ rolling_max' = spect_rolling_max_normalize(a, window)
    /\ UNCHANGED <<a, window>>
    /\ UNCHANGED exceptRoll

NextRoll == RollingMaxNormalize

SpecRoll == InitRoll /\ [][NextRoll]_vars

IsConstant(m, c) == \A f \in 1..Len(m) : \A t \in 1..Len(m[f]) : m[f][t] = c

MaxBatchLen == 3
MaxSeqLen == 3
CollateFreq == 2

CollateFns == {"_collate_fn", "_collate_fn_double", "_collate_fn_denoise", "_collate_fn_phoneme"}

FileNames == <<"a.wav", "b.wav", "c.wav", "d.wav", "e.wav">>

TargetChoices == <<(<<>>), <<5>>, <<6, 7>>>>

RECURSIVE Gcd(_, _)
Gcd(m, n) == IF n = 0 THEN m ELSE Gcd(n, m % n)

\* seq_length / float(max_seqlength), kept as an exact fraction in lowest terms
Frac(n, d) == <<n \div Gcd(n, d), d \div Gcd(n, d)>>

RECURSIVE Flatten(_)
Flatten(ss) == IF ss = <<>> THEN <<>> ELSE Head(ss) \o Flatten(Tail(ss))

\* the feature matrix of the example at input position i: non-zero everywhere
TensorOf(i, len) == [f \in 1..CollateFreq |-> [t \in 1..len |-> 100 * i + 10 * f + t]]

MkSample(fn, i, len, tg, extra) ==
    CASE fn = "_collate_fn" -> <<TensorOf(i, len), TargetChoices[tg], FileNames[i]>>
      [] fn = "_collate_fn_double" ->
            <<TensorOf(i, len), <<TargetChoices[tg], IF extra = 1 THEN <<3>> ELSE <<>> >>, FileNames[i]>>
      [] fn = "_collate_fn_denoise" ->
            <<(<<TensorOf(i, len), TensorOf(i + MaxBatchLen + 1, len), <<0>> >>), TargetChoices[tg], FileNames[i]>>
      [] fn = "_collate_fn_phoneme" ->
            IF extra = 1 THEN <<TensorOf(i, len), TargetChoices[tg], FileNames[i], <<9>> >>
            ELSE <<TensorOf(i, len), TargetChoices[tg], FileNames[i]>>

\* sample[0] (sample[0][0] in the denoise variant)
SpectOf(fn, sample) == IF fn = "_collate_fn_denoise" THEN sample[1][1] ELSE sample[1]

\* the sort key: sample[0].size(1)
SeqLen(fn, sample) == Len(SpectOf(fn, sample)[1])

MutSortedBatch(fn, b) ==
    LET rank(i) == Cardinality({j \in 1..Len(b) : SeqLen(fn, b[j]) < SeqLen(fn, b[i])})
                   + Cardinality({j \in 1..(i - 1) : SeqLen(fn, b[j]) = SeqLen(fn, b[i])}) + 1
    IN  [p \in 1..Len(b) |-> b[CHOOSE i \in 1..Len(b) : rank(i) = p]]

\* sorted(batch, key=lambda sample: sample[0].size(1), reverse=True):
\* descending, examples of equal length keep their input order
SortedBatch(fn, b) ==
    LET rank(i) == Cardinality({j \in 1..Len(b) : SeqLen(fn, b[j]) > SeqLen(fn, b[i])})
                   + Cardinality({j \in 1..(i - 1) : SeqLen(fn, b[j]) = SeqLen(fn, b[i])}) + 1
    IN  [p \in 1..Len(b) |-> b[CHOOSE i \in 1..Len(b) : rank(i) = p]]

\* max(batch, key=func)[0]: the first example of maximal length
LongestSample(fn, sb) ==
    SpectOf(fn, sb[CHOOSE i \in 1..Len(sb) :
                    /\ \A j \in 1..Len(sb) : SeqLen(fn, sb[j]) <= SeqLen(fn, sb[i])
                    /\ \A j \in 1..(i - 1) : SeqLen(fn, sb[j]) < SeqLen(fn, sb[i])])

\* torch.zeros(.., 1, freq_size, max_seqlength) then
\* inputs[x][0].narrow(1, 0, seq_length).copy_(tensor)
PaddedRow(tensor, freq_size, max_seqlength) ==
    <<[f \in 1..freq_size |->
        [t \in 1..max_seqlength |-> IF t <= Len(tensor[1]) THEN tensor[f][t] ELSE 0]]>>

\* the part the four collate functions share: inputs, input_percentages, filenames
CollateInputs(fn, sb) ==
    LET longest_sample == LongestSample(fn, sb)
        freq_size == Len(longest_sample)
        max_seqlength == Len(longest_sample[1])
    IN  [inputs |-> [x \in 1..Len(sb) |-> PaddedRow(SpectOf(fn, sb[x]), freq_size, max_seqlength)],
         input_percentages |-> [x \in 1..Len(sb) |-> Frac(SeqLen(fn, sb[x]), max_seqlength)],
         filenames |-> [x \in 1..Len(sb) |-> sb[x][3]]]

MutCollateFn(b) ==
    LET sb == SortedBatch("_collate_fn", b)
        c == CollateInputs("_collate_fn", sb)
    IN  [st |-> "ok", inputs |-> c.inputs,
         targets |-> Flatten([x \in 1..Len(b) |-> b[x][2]]),
         filenames |-> c.filenames,
         input_percentages |-> c.input_percentages,
         target_sizes |-> [x \in 1..Len(b) |-> Len(b[x][2])]]

_collate_fn(b) ==
    LET sb == SortedBatch("_collate_fn", b)
        c == CollateInputs("_collate_fn", sb)
    IN  [st |-> "ok", inputs |-> c.inputs,
         targets |-> Flatten([x \in 1..Len(sb) |-> sb[x][2]]),
         filenames |-> c.filenames,
         input_percentages |-> c.input_percentages,
         target_sizes |-> [x \in 1..Len(sb) |-> Len(sb[x][2])]]

_collate_fn_double(b) ==
    LET sb == SortedBatch("_collate_fn_double", b)
        c == CollateInputs("_collate_fn_double", sb)
    IN  [st |-> "ok", inputs |-> c.inputs,
         targets |-> Flatten([x \in 1..Len(sb) |-> sb[x][2][1]]),
         s2s_targets |-> Flatten([x \in 1..Len(sb) |-> sb[x][2][2]]),
         filenames |-> c.filenames,
         input_percentages |-> c.input_percentages,
         target_sizes |-> [x \in 1..Len(sb) |-> Len(sb[x][2][1])],
         s2s_target_sizes |-> [x \in 1..Len(sb) |-> Len(sb[x][2][2])]]

_collate_fn_denoise(b) ==
    LET sb == SortedBatch("_collate_fn_denoise", b)
        c == CollateInputs("_collate_fn_denoise", sb)
        width == Len(c.inputs[1][1][1])
    IN  IF \E x \in 1..Len(sb) : SeqLen("_collate_fn_denoise", sb[x]) # Len(sb[x][1][2][1])
        THEN [st |-> "AssertionError"]
        ELSE [st |-> "ok", inputs |-> c.inputs,
              targets |-> Flatten([x \in 1..Len(sb) |-> sb[x][2]]),
              filenames |-> c.filenames,
              input_percentages |-> c.input_percentages,
              target_sizes |-> [x \in 1..Len(sb) |-> Len(sb[x][2])],
              masks |-> [x \in 1..Len(sb) |-> PaddedRow(sb[x][1][2], Len(c.inputs[1][1]), width)]]

_collate_fn_phoneme(b) ==
    IF Len(b[1]) = 3 THEN _collate_fn(b)
    ELSE LET sb == SortedBatch("_collate_fn_phoneme", b)
             c == CollateInputs("_collate_fn_phoneme", sb)
         IN  IF \E x \in 1..Len(sb) : Len(sb[x]) < 4
             THEN [st |-> "IndexError"]
             ELSE [st |-> "ok", inputs |-> c.inputs,
                   targets |-> Flatten([x \in 1..Len(sb) |-> sb[x][2]]),
                   filenames |-> c.filenames,
                   input_percentages |-> c.input_percentages,
                   target_sizes |-> [x \in 1..Len(sb) |-> Len(sb[x][2])],
                   phoneme_targets |-> Flatten([x \in 1..Len(sb) |-> sb[x][4]]),
                   phoneme_target_sizes |-> [x \in 1..Len(sb) |-> Len(sb[x][4])]]

\* the batch of the documented example, in the order the worker produced it
ExampleLengths == <<10, 50, 30>>

InitCollate ==
    /\ collate_fn \in CollateFns
    /\ \/ \E n \in 1..MaxBatchLen :
            \E lens \in [1..n -> 1..MaxSeqLen], tg \in [1..n -> 1..Len(TargetChoices)],
               extra \in [1..n -> 0..1] :
                /\ collate_fn \in {"_collate_fn", "_collate_fn_denoise"} => \A i \in 1..n : extra[i] = 0
                /\ batch = [i \in 1..n |-> MkSample(collate_fn, i, lens[i], tg[i], extra[i])]
       \/ batch = [i \in 1..3 |-> MkSample(collate_fn, i, ExampleLengths[i], 2, 1)]
    /\ collated = [st |-> "none"]
    /\ IdleExceptCollate

Collate ==
    /\ collate_fn = "_collate_fn"
    /\ collated.st = "none"
    /\ collated' = _collate_fn(batch)
    /\ UNCHANGED <<batch, collate_fn>>
    /\ UNCHANGED exceptCollate

CollateDouble ==
    /\ collate_fn = "_collate_fn_double"
    /\ collated.st = "none"
    /\ collated' = _collate_fn_double(batch)
    /\ UNCHANGED <<batch, collate_fn>>
    /\ UNCHANGED exceptCollate

CollateDenoise ==
    /\ collate_fn = "_collate_fn_denoise"
    /\ collated.st = "none"
    /\ collated' = _collate_fn_denoise(batch)
    /\ UNCHANGED <<batch, collate_fn>>
    /\ UNCHANGED exceptCollate

CollatePhoneme ==
    /\ collate_fn = "_collate_fn_phoneme"
    /\ collated.st = "none"
    /\ collated' = _collate_fn_phoneme(batch)
    /\ UNCHANGED <<batch, collate_fn>>
    /\ UNCHANGED exceptCollate

NextCollate == Collate \/ CollateDouble \/ CollateDenoise \/ CollatePhoneme

SpecCollate == InitCollate /\ [][NextCollate]_vars

\* the input position of the example whose path is in output row x
SourceOf(x) == CHOOSE i \in 1..Len(batch) : batch[i][3] = collated.filenames[x]

BatchLens == [i \in 1..Len(batch) |-> SeqLen(collate_fn, batch[i])]

\* C3: in every collated batch the rows are in descending order of length,
\* the padded width is the longest length, the longest example is row 0,
\* row i's input_percentage is length_i / max_length, every column of row i
\* at or beyond length_i is zero, and lengths [50, 30, 10] give width 50 and
\* percentages [1.0, 0.6, 0.2].
C3_CollatePadding ==
    collated.st = "ok" =>
        LET n == Len(batch)
            maxlen == SeqMax(BatchLens)
            len(x) == BatchLens[SourceOf(x)]
        IN  /\ Len(collated.inputs) = n
            /\ \A x \in 1..n : \A y \in 1..n : x < y => len(x) >= len(y)
            /\ len(1) = maxlen
            /\ \A x \in 1..n :
                  /\ Len(collated.inputs[x]) = 1
                  /\ \A f \in 1..Len(collated.inputs[x][1]) :
                        /\ Len(collated.inputs[x][1][f]) = maxlen
                        /\ \A t \in 1..maxlen :
                              collated.inputs[x][1][f][t] =
                                  IF t <= len(x)
                                  THEN SpectOf(collate_fn, batch[SourceOf(x)])[f][t]
                                  ELSE 0
                  /\ collated.input_percentages[x][1] * maxlen = collated.input_percentages[x][2] * len(x)
            /\ Range(BatchLens) = {50, 30, 10} =>
                  /\ Len(collated.inputs[1][1][1]) = 50
                  /\ collated.input_percentages = <<(<<1, 1>>), <<3, 5>>, <<1, 5>> >>

\* the documented example, handed over unsorted, has been collated
C3_Witness ==
    /\ collated.st = "ok"
    /\ collate_fn = "_collate_fn"
    /\ BatchLens = <<10, 50, 30>>
    /\ collated.filenames = <<"b.wav", "c.wav", "a.wav">>

(***************************************************************************)
(* Label encoders: bpe_labels.Labels and phoneme_labels.PhonemeLabels.     *)
(* A text is a sequence of characters (one-character strings); a piece or  *)
(* a phoneme token is a sequence of characters too.  "LF" stands for the   *)
(* newline character and "<sp>" for the segmenter's space piece U+2581.    *)
(***************************************************************************)
MaxTextLen == 4
MaxWords == 2
MaxPhonemes == 3

TextChars == {"a", "b", "A", " ", "!", "-", "2", "LF"}

\* string.punctuation without '-'
Punctuation == {"!", "_", ".", ",", "?"}

\* string.printable without the newline (bpe_labels.py only)
Printable == {"a", "b", "x", "A", " ", "!", "-", "2", "_", ".", ",", "?"}

\* string.printable as imported by phoneme_labels.py
PhonemePrintable == Printable \cup {"LF"}

Whitespace == {" ", "LF"}

Unk == <<"<unk>">>
Bos == <<"<s>">>
Eos == <<"</s>">>

\* self.remove_sp_tokens
remove_sp_tokens == {Unk, Bos, Eos}

\* self.sp_space_token
sp_space_token == <<"<sp>">>

Last(q) == q[Len(q)]

\* a Python dict: keys in insertion order and the value of each key
EmptyDict == [keys |-> <<>>, val |-> <<>>]

DictHas(d, k) == k \in Range(d.keys)

\* d[k] = v
DictSet(d, k, v) ==
    [keys |-> IF DictHas(d, k) THEN d.keys ELSE Append(d.keys, k),
     val |-> [x \in Range(d.keys) \cup {k} |-> IF x = k THEN v ELSE d.val[x]]]

\* {v: k for k, v in d.items()}: for a repeated value the last key wins
DictReverse(d) ==
    LET codes == {d.val[k] : k \in Range(d.keys)}
        lastpos(c) == CHOOSE i \in 1..Len(d.keys) :
                          /\ d.val[d.keys[i]] = c
                          /\ \A j \in (i + 1)..Len(d.keys) : d.val[d.keys[j]] # c
    IN  [c \in codes |-> d.keys[lastpos(c)]]

RECURSIVE AddPieces(_, _)
\* for key in list(pieces.piece_str.values): self.labels_map[key] = len(self.labels_map)
AddPieces(d, ps) ==
    IF ps = <<>> THEN d
    ELSE AddPieces(DictSet(d, Head(ps), Len(d.keys)), Tail(ps))

\* pieces[~pieces.piece_str.isin(self.remove_sp_tokens+[self.sp_space_token])]
KeptPieces(vocab) ==
    SelectSeq(vocab, LAMBDA q : q \notin remove_sp_tokens /\ q # sp_space_token)

\* Labels.__init__: the piece -> code table
BuildLabelsMap(vocab) ==
    LET d0 == DictSet(EmptyDict, <<"_">>, 0)
        d1 == AddPieces(d0, KeptPieces(vocab))
        d2 == DictSet(d1, <<"2">>, Len(d1.keys))
    IN  DictSet(d2, <<" ">>, Len(d2.keys))

\* the vocabularies of the segmenter models the encoder is built from
BaseVocab == <<Unk, Bos, Eos, sp_space_token, <<"a">>, <<"b">>, <<"a", "b">> >>

Vocabularies ==
    {BaseVocab,
     BaseVocab \o << <<"2">>, <<"-">> >>,
     BaseVocab \o << <<"_">>, <<" ">> >>}

RECURSIVE CollapseSpaces(_)
\* remove_extra_spaces: re.sub(' +', ' ', text)
CollapseSpaces(tx) ==
    IF Len(tx) < 2 THEN tx
    ELSE IF tx[1] = " " /\ tx[2] = " " THEN CollapseSpaces(Tail(tx))
         ELSE <<tx[1]>> \o CollapseSpaces(Tail(tx))

RECURSIVE LStrip(_)
LStrip(tx) == IF tx # <<>> /\ tx[1] \in Whitespace THEN LStrip(Tail(tx)) ELSE tx

RECURSIVE RStrip(_)
RStrip(tx) ==
    IF tx # <<>> /\ Last(tx) \in Whitespace THEN RStrip(SubSeq(tx, 1, Len(tx) - 1)) ELSE tx

\* str.strip()
Strip(tx) == RStrip(LStrip(tx))

\* str.lower()
Lower(tx) == [i \in 1..Len(tx) |-> IF tx[i] = "A" THEN "a" ELSE tx[i]]

\* Labels.parse, lines 82-86 (non-phoneme mode)
CleanText(tx) ==
    Lower(Strip(CollapseSpaces(SelectSeq(tx, LAMBDA c : c \notin Punctuation /\ c \in Printable))))

RECURSIVE Segmentations(_, _)
\* self.spm.encode_as_pieces(text): the segmenter is an external library.  It
\* cuts the text into pieces of its vocabulary, emits its space piece for a
\* space and <unk> for a character it has no piece for.
Segmentations(tx, vocab) ==
    IF tx = <<>> THEN {<<>>}
    ELSE UNION {
            LET pre == SubSeq(tx, 1, k)
                rest == Segmentations(SubSeq(tx, k + 1, Len(tx)), vocab)
            IN  IF pre = <<" ">> THEN {<<sp_space_token>> \o r : r \in rest}
                ELSE IF pre \in Range(KeptPieces(vocab)) THEN {<<pre>> \o r : r \in rest}
                ELSE IF k = 1 THEN {<<Unk>> \o r : r \in rest}
                ELSE {}
            : k \in 1..Len(tx)}

\* with the bos/eos extra options the segmenter brackets the pieces
SegmenterOutputs(tx, vocab) ==
    Segmentations(tx, vocab) \cup {<<Bos>> \o q \o <<Eos>> : q \in Segmentations(tx, vocab)}

RECURSIVE ParseTokens(_, _, _, _, _)
\* Labels.parse, lines 116-128; code = -1 while the local is unbound
ParseTokens(d, toks, i, tr, code) ==
    IF i > Len(toks) THEN [st |-> "ok", codes |-> tr]
    ELSE LET token == toks[i]
         IN  IF token \in remove_sp_tokens
             THEN IF code = -1 THEN [st |-> "UnboundLocalError", codes |-> <<>>]
                  ELSE ParseTokens(d, toks, i + 1, Append(tr, code), code)
             ELSE IF token = sp_space_token
             THEN ParseTokens(d, toks, i + 1, Append(tr, d.val[<<" ">>]), d.val[<<" ">>])
             ELSE IF ~DictHas(d, token) THEN [st |-> "KeyError", codes |-> <<>>]
             ELSE LET c == IF tr # <<>> /\ Last(tr) = d.val[token]
                           THEN d.val[<<"2">>] ELSE d.val[token]
                  IN  ParseTokens(d, toks, i + 1, Append(tr, c), c)

\* Labels.render_transcript (non-phoneme mode)
render_transcript(d, codes) ==
    IF \E i \in 1..Len(codes) : codes[i] \notin DOMAIN DictReverse(d)
    THEN [st |-> "KeyError", text |-> <<>>]
    ELSE [st |-> "ok", text |-> Flatten([i \in 1..Len(codes) |-> DictReverse(d)[codes[i]]])]

RECURSIVE Split(_, _)
\* str.split(sep) for a one-character separator
Split(tx, sep) ==
    IF \A i \in 1..Len(tx) : tx[i] # sep THEN <<tx>>
    ELSE LET k == CHOOSE i \in 1..Len(tx) : tx[i] = sep /\ \A j \in 1..(i - 1) : tx[j] # sep
         IN  <<SubSeq(tx, 1, k - 1)>> \o Split(SubSeq(tx, k + 1, Len(tx)), sep)

RECURSIVE Join(_, _)
\* sep.join(parts)
Join(parts, sep) ==
    IF parts = <<>> THEN <<>>
    ELSE IF Len(parts) = 1 THEN parts[1]
    ELSE parts[1] \o <<sep>> \o Join(Tail(parts), sep)

\* the phoneme map handed to PhonemeLabels
PhonemeMap ==
    (<<"_">> :> 0) @@ (<<"a">> :> 1) @@ (<<"b">> :> 2) @@ (<<"2">> :> 3) @@ (<<" ">> :> 4)

RECURSIVE PhonemeWord(_, _, _, _, _)
\* PhonemeLabels.parse, lines 27-32: one word; code = -1 while the local is unbound
PhonemeWord(pm, split_word, i, word_transcript, code) ==
    IF i > Len(split_word) THEN [st |-> "ok", codes |-> word_transcript, code |-> code]
    ELSE LET c == split_word[i]
             c1 == IF c \in DOMAIN pm THEN pm[c] ELSE code
         IN  IF c1 = -1 THEN [st |-> "UnboundLocalError", codes |-> <<>>, code |-> code]
             ELSE LET c2 == IF Len(word_transcript) > 1 /\ Last(word_transcript) = c1
                            THEN pm[<<"2">>] ELSE c1
                  IN  PhonemeWord(pm, split_word, i + 1, Append(word_transcript, c2), c2)

RECURSIVE PhonemeWords(_, _, _, _, _)
\* PhonemeLabels.parse, lines 24-33: the loop over the words
PhonemeWords(pm, words, w, phonetic_transcript, code) ==
    IF w > Len(words) THEN [st |-> "ok", codes |-> phonetic_transcript]
    ELSE LET r == PhonemeWord(pm, Split(words[w], "-"), 1, <<>>, code)
         IN  IF r.st # "ok" THEN [st |-> r.st, codes |-> <<>>]
             ELSE PhonemeWords(pm, words, w + 1,
                               Append(phonetic_transcript, r.codes \o <<pm[<<" ">>]>>), r.code)

\* PhonemeLabels.parse up to its return statement: the chained word lists
\* without the last space token
PhonemeLoop(pm, tx) ==
    LET filtered == SelectSeq(tx, LAMBDA c : c \notin Punctuation /\ c \in PhonemePrintable)
        r == PhonemeWords(pm, Split(filtered, " "), 1, <<>>, -1)
    IN  IF r.st # "ok" THEN r
        ELSE [st |-> "ok", codes |-> SubSeq(Flatten(r.codes), 1, Len(Flatten(r.codes)) - 1)]

\* phoneme_labels.py imports only string.punctuation and string.printable
ItertoolsImported == FALSE

\* PhonemeLabels.parse: the return statement reads the global name itertools
PhonemeParse(pm, tx) ==
    LET r == PhonemeLoop(pm, tx)
    IN  IF r.st # "ok" THEN r
        ELSE IF ~ItertoolsImported THEN [st |-> "NameError", codes |-> <<>>]
        ELSE r

PhonemeTokens == {<<"a">>, <<"b">>, <<"x">>, <<>>}

PhonemeTexts ==
    UNION {
        { Join([w \in 1..nw |-> Join(ws[w], "-")], " ") :
            ws \in [1..nw -> UNION {[1..np -> PhonemeTokens] : np \in 1..MaxPhonemes}] }
        : nw \in 1..MaxWords}

InitLabels ==
    /\ \/ /\ encoder = "Labels"
          /\ spm \in Vocabularies
          /\ labels_map = BuildLabelsMap(spm)
          /\ phoneme_map = <<>>
          /\ \E n \in 0..MaxTextLen : text \in [1..n -> TextChars]
       \/ /\ encoder = "PhonemeLabels"
          /\ spm = <<>>
          /\ labels_map = <<>>
          /\ phoneme_map = PhonemeMap
          /\ text \in PhonemeTexts
    /\ sp_transcript = <<>>
    /\ transcript = [st |-> "none", codes |-> <<>>]
    /\ rendered = [st |-> "none", text |-> <<>>]
    /\ IdleExceptLabels

\* Labels.parse(text)
Parse ==
    /\ encoder = "Labels"
    /\ transcript.st = "none"
    /\ \E toks \in SegmenterOutputs(CleanText(text), spm) :
          /\ sp_transcript' = toks
          /\ transcript' = ParseTokens(labels_map, toks, 1, <<>>, -1)
    /\ UNCHANGED <<encoder, spm, labels_map, phoneme_map, text, rendered>>
    /\ UNCHANGED exceptLabels

\* Labels.render_transcript(parse(text))
RenderTranscript ==
    /\ encoder = "Labels"
    /\ transcript.st = "ok"
    /\ rendered.st = "none"
    /\ rendered' = render_transcript(labels_map, transcript.codes)
    /\ UNCHANGED <<encoder, spm, labels_map, phoneme_map, text, sp_transcript, transcript>>
    /\ UNCHANGED exceptLabels

\* PhonemeLabels.parse(text)
ParsePhonemes ==
    /\ encoder = "PhonemeLabels"
    /\ transcript.st = "none"
    /\ transcript' = PhonemeParse(phoneme_map, text)
    /\ UNCHANGED <<encoder, spm, labels_map, phoneme_map, text, sp_transcript, rendered>>
    /\ UNCHANGED exceptLabels

NextLabels == Parse \/ RenderTranscript \/ ParsePhonemes

SpecLabels == InitLabels /\ [][NextLabels]_vars

NoMarkers == \A i \in 1..Len(sp_transcript) : sp_transcript[i] \notin remove_sp_tokens

\* C4: in non-phoneme mode render_transcript(parse(text)) is the cleaned
\* form of the text, also when the segmenter emits two identical consecutive
\* pieces (stated for the segmentations without marker pieces, which C19 is
\* about)
C4_RoundTrip ==
    (encoder = "Labels" /\ rendered.st # "none" /\ NoMarkers) =>
        (rendered.st = "ok" /\ rendered.text = CleanText(text))

RepeatCode == IF encoder = "Labels" THEN labels_map.val[<<"2">>] ELSE phoneme_map[<<"2">>]

SpaceCode == IF encoder = "Labels" THEN labels_map.val[<<" ">>] ELSE phoneme_map[<<" ">>]

\* C5: in every code sequence an encoder produced, the repeat code is not
\* next to the space code and is not the first code of a word (stated for
\* the segmentations without marker pieces, which C19 is about)
C5_RepeatNotAtWordEdge ==
    (transcript.st = "ok" /\ NoMarkers) =>
        \A i \in 1..Len(transcript.codes) :
            transcript.codes[i] = RepeatCode =>
                /\ i > 1
                /\ transcript.codes[i - 1] # SpaceCode
                /\ i < Len(transcript.codes) => transcript.codes[i + 1] # SpaceCode

(***************************************************************************)
(* SpectrogramParser: parse_audio, load_audio_cache, the denoise tensors.  *)
(* A signal is a sequence of integer samples.  Probabilities are percents; *)
(* a random draw is a nondeterministic choice.  The model runs the parser  *)
(* with normalize = False, aug_prob_spect = 0, no noise injector and the   *)
(* torch STFT, which yields 161 frequency bins.                            *)
(***************************************************************************)
MaxSignalLen == 2
MaxSample == 1
MaxCalls == 2
FreqBins == 161
NFft == 2
HopLength == 1
MirrorRow == 81

AudioPaths == {"a.wav"}

Signals == UNION {[1..n -> 0..MaxSample] : n \in 2..MaxSignalLen}

\* if False:  # if USE_CACHE
USE_CACHE == FALSE

\* SpectrogramParser.channel (the dataset never passes another one)
channel == -1

TEMPOS == [i \in 0..2 |-> CASE i = 0 -> <<"1.0", <<100, 100>> >>
                            [] i = 1 -> <<"0.9", <<85, 95>> >>
                            [] i = 2 -> <<"1.1", <<105, 115>> >>]

Abs(x) == IF x < 0 THEN -x ELSE x

RECURSIVE Sum(_, _)
Sum(f, n) == IF n = 0 THEN 0 ELSE f[n] + Sum(f, n - 1)

\* AddNoise of data.audio_aug: a scaled noise sample is added to the signal
AddNoise(y) == [i \in 1..Len(y) |-> y[i] + 1]

\* Shift of data.audio_aug: the signal is moved in time, its length kept
Shift(y) == [i \in 1..Len(y) |-> IF i = 1 THEN 0 ELSE y[i - 1]]

\* load_randomly_augmented_audio(.., transforms=self.augs): OneOf applies one
\* transform of its list or passes the signal through; no transform at all
\* when aug_prob is 0 (self.augs is None)
AugOutcomes(y, prob, dn) ==
    IF prob > 0
    THEN IF dn THEN {y, Shift(y)} ELSE {y, AddNoise(y), Shift(y)}
    ELSE {y}

\* self.noise_augs(wav=y, sr=sample_rate)['wav'] when aug_prob > 0, else y
NoiseOutcomes(y, prob) == IF prob > 0 THEN {y, AddNoise(y)} ELSE {y}

\* random.random() < self.aug_prob_8khz, consulted only when aug_prob_8khz > 0
Khz8Outcomes(prob) == IF prob > 0 THEN {TRUE, FALSE} ELSE {FALSE}

\* int((len(y) + 2 * self.n_fft//2 - (self.n_fft - 1) - 1) / self.hop_length + 1)
stft_output_len(n) == ((n + 2 * (NFft \div 2) - (NFft - 1) - 1) \div HopLength) + 1

\* the signal padded by reflection on both sides, as the transform does
ReflectPad(y, p) ==
    AsList([i \in 1..(Len(y) + 2 * p) |->
        IF i <= p THEN y[Min(p - i + 2, Len(y))]
        ELSE IF i <= p + Len(y) THEN y[i - p]
        ELSE y[Max(2 * Len(y) + p - i, 1)]])

\* self.stft.transform(y): the magnitude of a short-time transform, one
\* column per frame and one row per frequency bin (n_fft // 2 + 1 of them);
\* the basis of bin f is the sign pattern (-1)^(f*k)
Stft(y) ==
    AsList([f \in 1..((NFft \div 2) + 1) |->
        AsList([t \in 1..stft_output_len(Len(y)) |->
            Abs(Sum([k \in 1..NFft |->
                        (IF ((f - 1) * (k - 1)) % 2 = 0 THEN 1 ELSE -1)
                        * ReflectPad(y, NFft \div 2)[(t - 1) * HopLength + k]], NFft))])])

\* spect.resize((161, *shape[1:])); spect[81:] = spect[80:0:-1]
Resized(spect) ==
    AsList([f \in 1..FreqBins |->
        IF f <= MirrorRow
        THEN IF f <= Len(spect) THEN spect[f] ELSE Zeros(Len(spect[1]))
        ELSE IF FreqBins + 2 - f <= Len(spect) THEN spect[FreqBins + 2 - f]
             ELSE Zeros(Len(spect[1]))])

\* spect[81:] = 0 when the 8 kHz augmentation fires
Lowpassed(spect, khz8) ==
    AsList([f \in 1..Len(spect) |->
        IF khz8 /\ f > MirrorRow THEN Zeros(Len(spect[f])) ELSE spect[f]])

\* audio_to_stft: the magnitudes, resized to 161 rows when there are fewer,
\* rows 81.. zeroed by the 8 kHz augmentation, cut to 161 rows
audio_to_stft(y, khz8) ==
    PyPrefix(Lowpassed(IF Len(Stft(y)) < FreqBins THEN Resized(Stft(y)) ELSE Stft(y), khz8),
             FreqBins)

\* np.log1p in hundredths, rounded
Log1p(v) == <<0, 69, 110, 139, 161, 179, 195, 208, 220>>[v + 1]

\* normalize_audio with normalize = False: S = log(S+1)
normalize_audio(spect) ==
    AsList([f \in 1..Len(spect) |-> AsList([t \in 1..Len(spect[f]) |-> Log1p(spect[f][t])])])

\* or_spect *= 1 / (eps + self.spect_rolling_max_normalize(or_spect)), eps = 1e-4;
\* the quotient is kept as an exact fraction
RollingNormalized(or_spect) ==
    CHOOSE out \in {
        AsList([f \in 1..Len(or_spect) |->
            AsList([t \in 1..Len(or_spect[f]) |->
                Frac(or_spect[f][t] * 10000, 1 + rm[t] * 10000)])])
        : rm \in {spect_rolling_max_normalize(or_spect, DefaultWindow).val}} : TRUE

\* _make_denoise_tensors: the tensors with the noise mask; y_noise is what
\* self.noise_augs made of y.  (make_noise_mask is needed only when the noise
\* changed the signal; it is not modelled.)
_make_denoise_tensors(y, y_noise) ==
    IF aug_prob > 0 /\ y # y_noise
    THEN [y |-> y_noise, mask |-> "make_noise_mask"]
    ELSE [y |-> y_noise,
          mask |-> [f \in 1..FreqBins |-> [t \in 1..stft_output_len(Len(y)) |-> <<0, 1>>]]]

\* make_denoise_tensors: the tensors parse_audio asks for; the second one is
\* the normalized spectrogram of the signal before the noise
make_denoise_tensors(y, y_noise, khz8) ==
    [y |-> y_noise,
     mask |-> CHOOSE m \in {RollingNormalized(or_spect) :
                                or_spect \in {audio_to_stft(y, khz8)}} : TRUE]

Shape(m) == <<Len(m), Len(m[1])>>

\* sha1(bytes).hexdigest()[:9], an encoding of the content
Hash(y) == Sum([i \in 1..Len(y) |-> (y[i] + 1) * (10 ^ (i - 1))], Len(y))

chan == IF channel = -1 THEN "avg" ELSE "ch"

\* cache_fn and old_cache_fn of load_audio_cache
CacheFn(path, tempo_id) == <<"new", Hash(files[path]), path, TEMPOS[tempo_id][1], chan>>

OldCacheFn(path, tempo_id) == <<"old", 0, path, TEMPOS[tempo_id][1], chan>>

\* shutil.move(old_cache_fn, cache_fn) when only the old file exists
Migrated(c, path, tempo_id) ==
    IF OldCacheFn(path, tempo_id) \in DOMAIN c /\ CacheFn(path, tempo_id) \notin DOMAIN c
    THEN [n \in (DOMAIN c \ {OldCacheFn(path, tempo_id)}) \cup {CacheFn(path, tempo_id)} |->
            IF n = CacheFn(path, tempo_id) THEN c[OldCacheFn(path, tempo_id)] ELSE c[n]]
    ELSE c

NoSpect == [st |-> "None"]

\* what load_audio_cache returns as spec: None for a missing or unreadable file
CachedSpect(c, path, tempo_id) ==
    IF CacheFn(path, tempo_id) \in DOMAIN c /\ c[CacheFn(path, tempo_id)].st = "ok"
    THEN c[CacheFn(path, tempo_id)]
    ELSE NoSpect

\* np.save(tmp) and os.rename(tmp, cache_fn)
Saved(c, path, tempo_id, spect) ==
    [n \in DOMAIN c \cup {CacheFn(path, tempo_id)} |->
        IF n = CacheFn(path, tempo_id) THEN [st |-> "ok", spect |-> spect] ELSE c[n]]

EmptyCache == [n \in {} |-> NoSpect]

\* what an earlier run left for a.wav under the old flat name of tempo 1.0
LegacySpect == normalize_audio(audio_to_stft(<<1, 0>>, FALSE))

LegacyCache == [n \in {<<"old", 0, "a.wav", "1.0", "avg">>} |-> [st |-> "ok", spect |-> LegacySpect]]

\* an unreadable file under the new cache name of path at tempo 1.0
CorruptCache(path) == [n \in {CacheFn(path, 0)} |-> [st |-> "corrupt"]]

InitParser ==
    /\ files \in [AudioPaths -> Signals]
    /\ augment \in BOOLEAN
    /\ aug_prob \in {0, 50}
    /\ denoise \in BOOLEAN
    /\ aug_prob_8khz \in (IF denoise \/ augment THEN {0} ELSE {0, 50})
    /\ cache \in {EmptyCache, LegacyCache, CorruptCache("a.wav")}
    /\ calls = <<>>
    /\ IdleExceptParser

\* load_audio_cache(audio_path, tempo_id)
LoadAudioCache(path, tempo_id) ==
    /\ Len(calls) < MaxCalls
    /\ cache' = Migrated(cache, path, tempo_id)
    /\ calls' = Append(calls, [op |-> "load_audio_cache", audio_path |-> path,
                               tempo_id |-> tempo_id, content |-> files[path],
                               from_cache |-> CachedSpect(cache', path, tempo_id).st = "ok",
                               res |-> CachedSpect(cache', path, tempo_id)])
    /\ UNCHANGED <<files, augment, aug_prob, aug_prob_8khz, denoise>>
    /\ UNCHANGED exceptParser

\* parse_audio(audio_path) without denoise: returns spect
ParseAudio(path) ==
    /\ Len(calls) < MaxCalls
    /\ ~denoise
    /\ \E tempo_id \in (IF augment THEN 0..2 ELSE {0}) :
       \E y \in AugOutcomes(files[path], aug_prob, denoise), khz8 \in Khz8Outcomes(aug_prob_8khz) :
       \E c1 \in {IF USE_CACHE THEN Migrated(cache, path, tempo_id) ELSE cache} :
       \E hit \in {IF USE_CACHE THEN CachedSpect(c1, path, tempo_id) ELSE NoSpect} :
       \E magnitudes \in {IF hit.st = "ok" THEN <<>> ELSE audio_to_stft(y, khz8)} :
       \E spect \in {IF hit.st = "ok" THEN hit.spect ELSE normalize_audio(magnitudes)} :
              /\ cache' = IF USE_CACHE /\ hit.st # "ok" /\ tempo_id = 0
                          THEN Saved(c1, path, tempo_id, spect) ELSE c1
              /\ calls' = Append(calls, [op |-> "parse_audio", audio_path |-> path,
                                         tempo_id |-> tempo_id, content |-> files[path],
                                         from_cache |-> hit.st = "ok",
                                         res |-> [st |-> "ok", spect |-> spect]])
    /\ UNCHANGED <<files, augment, aug_prob, aug_prob_8khz, denoise>>
    /\ UNCHANGED exceptParser

\* parse_audio(audio_path) in denoise mode: returns (spect, mask, y)
ParseAudioDenoise(path) ==
    /\ Len(calls) < MaxCalls
    /\ denoise
    /\ \E tempo_id \in (IF augment THEN 0..2 ELSE {0}) :
       \E y0 \in AugOutcomes(files[path], aug_prob, denoise) :
       \E y_noise \in NoiseOutcomes(y0, aug_prob) :
       \E k1 \in Khz8Outcomes(aug_prob_8khz), k2 \in Khz8Outcomes(aug_prob_8khz) :
       \E d \in {make_denoise_tensors(y0, y_noise, k1)} :
       \E st \in {audio_to_stft(d.y, k2)} :
       \E spect \in {normalize_audio(st)} :
              calls' = Append(calls, [op |-> "parse_audio", audio_path |-> path,
                                      tempo_id |-> tempo_id, content |-> files[path],
                                      from_cache |-> FALSE,
                                      res |-> IF Shape(spect) # Shape(d.mask)
                                              THEN [st |-> "AssertionError"]
                                              ELSE [st |-> "ok", spect |-> spect, mask |-> d.mask,
                                                    y |-> d.y, clean |-> y0]])
    /\ UNCHANGED <<files, cache, augment, aug_prob, aug_prob_8khz, denoise>>
    /\ UNCHANGED exceptParser

\* _make_denoise_tensors(audio_path, TEMPOS[0][1]) called on the parser itself
MakeDenoiseTensors(path) ==
    /\ Len(calls) < MaxCalls
    /\ denoise
    /\ \E y0 \in AugOutcomes(files[path], aug_prob, denoise) :
       \E y_noise \in NoiseOutcomes(y0, aug_prob) :
       \E d \in {_make_denoise_tensors(y0, y_noise)} :
              calls' = Append(calls, [op |-> "_make_denoise_tensors", audio_path |-> path,
                                      tempo_id |-> 0, content |-> files[path],
                                      from_cache |-> FALSE,
                                      res |-> [st |-> "ok", mask |-> d.mask,
                                               y |-> d.y, clean |-> y0]])
    /\ UNCHANGED <<files, cache, augment, aug_prob, aug_prob_8khz, denoise>>
    /\ UNCHANGED exceptParser

NextParser ==
    \/ \E path \in AudioPaths, tempo_id \in 0..2 : LoadAudioCache(path, tempo_id)
    \/ \E path \in AudioPaths : MakeDenoiseTensors(path)
    \/ \E path \in AudioPaths : ParseAudio(path)
    \/ \E path \in AudioPaths : ParseAudioDenoise(path)

SpecParser == InitParser /\ [][NextParser]_vars

SameKey(c1, c2) ==
    /\ c1.content = c2.content
    /\ c1.audio_path = c2.audio_path
    /\ c1.tempo_id = c2.tempo_id

\* C6: two parse_audio / cache lookups for the same file content, tempo
\* variant and channel mode return identical feature matrices, the second
\* is served from the entry the first stored, and only tempo_id 0 is ever
\* written to the cache.
C6_CachePurity ==
    /\ \A i, j \in 1..Len(calls) :
          (i < j /\ SameKey(calls[i], calls[j]) /\ calls[i].op = "parse_audio") =>
              /\ calls[j].res = calls[i].res
              /\ calls[j].from_cache
    /\ \A n \in DOMAIN cache : n[1] = "new" => n[4] = TEMPOS[0][1]

\* C8: in denoise mode, when the noise transform left the signal unchanged,
\* the mask parse_audio returns is all zeros and has the shape of the
\* spectrogram, 161 x number of STFT frames.
C8_ZeroMask ==
    \A i \in 1..Len(calls) :
        (denoise /\ calls[i].op = "parse_audio" /\ calls[i].res.st = "ok"
            /\ calls[i].res.y = calls[i].res.clean) =>
            /\ Shape(calls[i].res.mask) = Shape(calls[i].res.spect)
            /\ Shape(calls[i].res.mask) = <<FreqBins, stft_output_len(Len(calls[i].res.y))>>
            /\ \A f \in 1..FreqBins : \A t \in 1..Len(calls[i].res.mask[f]) :
                  calls[i].res.mask[f][t][1] = 0

(***************************************************************************)
(* SpectrogramDataset: manifest, curriculum store, epoch selection         *)
(* A manifest row and an element of all_ids / ids is a tuple of fields     *)
(* <<wav, txt, dur>> or <<wav, txt, dur, domain>>.  A curriculum record is *)
(* a record; it has the field domain only when the dict has the key.       *)
(***************************************************************************)
MaxRows == 2
MaxOps == 3
MaxDatasetEpoch == 1
SubsampleSlack == 100
InitialCer == 999

WavPaths == {"a.wav", "b.wav"}

TxtOf(wav) == IF wav = "a.wav" THEN "a.txt" ELSE "b.txt"

\* a Python str that holds the digits of n, and a Python float
PyStr(n) == [str |-> n]

PyFloat(n) == [float |-> n]

\* the duration column of the manifest, a str as csv.reader yields it
DurOf(wav) == PyStr(IF wav = "a.wav" THEN 10 ELSE 9)

ManifestRows ==
    {<<w, TxtOf(w), DurOf(w)>> : w \in WavPaths}
        \cup {<<w, TxtOf(w), DurOf(w), "d1">> : w \in WavPaths}
        \cup {<<"a.wav", "a.txt">>}

Manifests == UNION {[1..n -> ManifestRows] : n \in 0..MaxRows}

\* a cell of a csv file that holds the text of the number v
Cell(v) == PyStr(v)

\* float(cell) and int(cell): the number a cell's text denotes
Number(c) == c.str

\* str(v) as csv.DictWriter writes a duration, which is a str or a float
Text(v) == IF "str" \in DOMAIN v THEN v ELSE PyStr(v.float)

\* a row of a curriculum csv as csv.DictReader yields it, with 8 columns or,
\* with the domain column, 9
FileRow(w, columns) ==
    IF columns = 9
    THEN [wav |-> w, text |-> "ref0", transcript |-> "hyp0", offsets |-> "",
          times_used |-> Cell(1), cer |-> Cell(500), wer |-> Cell(600),
          duration |-> Cell(7), domain |-> "d2"]
    ELSE [wav |-> w, text |-> "ref0", transcript |-> "hyp0", offsets |-> "",
          times_used |-> Cell(1), cer |-> Cell(500), wer |-> Cell(600),
          duration |-> Cell(7)]

NoFile == [given |-> FALSE, rows |-> <<>>]

CurriculumFiles ==
    {NoFile} \cup
    {[given |-> TRUE, rows |-> rs] :
        rs \in UNION {[1..n -> {FileRow(w, columns) : w \in WavPaths}] :
                        n \in 0..MaxRows, columns \in {8, 9}}}

\* parse_mf_row accepts a row of 3 or 4 fields and raises ValueError otherwise
RowOk(row) == Len(row) = 3 \/ Len(row) = 4

\* for wav, txt, dur in ids / for wav, txt, dur, domain in ids: every
\* element unpacks into n names
Unpacks(idseq, n) == \A i \in 1..Len(idseq) : Len(idseq[i]) = n

Wavs(idseq) == {idseq[i][1] : i \in 1..Len(idseq)}

\* a dict comprehension over ids keeps, for a wav listed twice, the last item
LastItem(idseq, wav) ==
    idseq[CHOOSE i \in 1..Len(idseq) :
            /\ idseq[i][1] = wav
            /\ \A j \in (i + 1)..Len(idseq) : idseq[j][1] # wav]

HasDomain(rec) == "domain" \in DOMAIN rec

\* the record __init__ makes for an item when there is no curriculum file
InitialRecord(item) ==
    IF Len(item) = 4
    THEN [wav |-> item[1], text |-> "", transcript |-> "", offsets |-> "None",
          times_used |-> 0, domain |-> item[4], duration |-> item[3],
          cer |-> InitialCer, wer |-> InitialCer]
    ELSE [wav |-> item[1], text |-> "", transcript |-> "", offsets |-> "None",
          times_used |-> 0, duration |-> item[3],
          cer |-> InitialCer, wer |-> InitialCer]

\* a row of the curriculum file after the conversions of the loading loop;
\* the row has a duration column, and takes its domain from the manifest
\* when it has no domain column
LoadedRow(r, idseq) ==
    [wav |-> r.wav, text |-> r.text, transcript |-> r.transcript, offsets |-> r.offsets,
     times_used |-> Number(r.times_used), cer |-> Number(r.cer), wer |-> Number(r.wer),
     duration |-> PyFloat(Number(r.duration)),
     domain |-> IF HasDomain(r) THEN r.domain ELSE LastItem(idseq, r.wav)[4]]

\* {row['wav']: row for row in rows}
LoadedCurriculum(rows, idseq) ==
    [w \in {rows[i].wav : i \in 1..Len(rows)} |->
        LoadedRow(rows[CHOOSE i \in 1..Len(rows) :
                          /\ rows[i].wav = w
                          /\ \A j \in (i + 1)..Len(rows) : rows[j].wav # w], idseq)]

Failed(exception) ==
    [st |-> exception, all_ids |-> <<>>, size |-> 0, curriculum |-> <<>>, domains |-> {}]

Built(idseq, cur, doms) ==
    [st |-> "ok", all_ids |-> idseq, size |-> Len(idseq), curriculum |-> cur, domains |-> doms]

\* the branch of __init__ that loads the curriculum file
FromFile(idseq, rows) ==
    IF rows = <<>> THEN Failed("IndexError")
    ELSE IF Cardinality(DOMAIN rows[1]) = 3
    THEN IF Unpacks(idseq, 3) THEN Failed("AssertionError") ELSE Failed("ValueError")
    ELSE IF ~Unpacks(idseq, 4) THEN Failed("ValueError")
    ELSE IF \E i \in 1..Len(rows) : ~HasDomain(rows[i]) /\ rows[i].wav \notin Wavs(idseq)
    THEN Failed("KeyError")
    ELSE IF DOMAIN LoadedCurriculum(rows, idseq) = Wavs(idseq)
    THEN Built(idseq, LoadedCurriculum(rows, idseq), {idseq[i][4] : i \in 1..Len(idseq)})
    ELSE IF Wavs(idseq) \subseteq DOMAIN LoadedCurriculum(rows, idseq)
    THEN Built(idseq, [w \in Wavs(idseq) |-> LoadedCurriculum(rows, idseq)[w]],
               {idseq[i][4] : i \in 1..Len(idseq)})
    ELSE Failed("KeyError")

\* the branch of __init__ without a curriculum file
FromManifest(idseq) ==
    IF idseq = <<>> THEN Failed("IndexError")
    ELSE IF Len(idseq[1]) = 3
    THEN IF Unpacks(idseq, 3)
         THEN Built(idseq, [w \in Wavs(idseq) |-> InitialRecord(LastItem(idseq, w))], {})
         ELSE Failed("ValueError")
    ELSE IF Len(idseq[1]) = 4
    THEN IF Unpacks(idseq, 4)
         THEN Built(idseq, [w \in Wavs(idseq) |-> InitialRecord(LastItem(idseq, w))],
                    {idseq[i][4] : i \in 1..Len(idseq)})
         ELSE Failed("ValueError")
    ELSE Failed("ValueError")

\* SpectrogramDataset.__init__ up to the curriculum store (max_items = None)
Constructed(rows, file) ==
    IF \E i \in 1..Len(rows) : ~RowOk(rows[i]) THEN Failed("ValueError")
    ELSE IF file.given THEN FromFile(rows, file.rows)
    ELSE FromManifest(rows)

MutUpdatedRecord(old, audio_path, times_used) ==
    [wav |-> audio_path, text |-> "ref1", transcript |-> "hyp1", offsets |-> "off1",
     times_used |-> times_used, domain |-> "default_domain",
     duration |-> old.duration, cer |-> 100, wer |-> 200]

\* the record update_curriculum stores; reference, transcript, offsets, cer
\* and wer are the values of the call
UpdatedRecord(old, audio_path, times_used) ==
    [wav |-> audio_path, text |-> "ref1", transcript |-> "hyp1", offsets |-> "off1",
     times_used |-> times_used,
     domain |-> IF HasDomain(old) THEN old.domain ELSE "default_domain",
     duration |-> old.duration, cer |-> 100, wer |-> 200]

MutStored(cur, audio_path, rec) ==
    [cur EXCEPT ![audio_path] =
        [f \in DOMAIN rec |-> IF f = "text" \/ f \notin DOMAIN cur[audio_path]
                              THEN rec[f] ELSE cur[audio_path][f]]]

\* self.curriculum[audio_path] = {...}: the new dict replaces the old one
Stored(cur, audio_path, rec) == [cur EXCEPT ![audio_path] = rec]

\* if 'domain' not in cl: cl['domain'] = 'default'
WithDomain(cl) ==
    IF HasDomain(cl) THEN cl
    ELSE [f \in DOMAIN cl \cup {"domain"} |-> IF f = "domain" THEN "default" ELSE cl[f]]

\* writer.writerow(cl): every value as text, None as the empty text
CsvRow(cl) ==
    [wav |-> cl.wav, text |-> cl.text, transcript |-> cl.transcript,
     offsets |-> IF cl.offsets = "None" THEN "" ELSE cl.offsets,
     times_used |-> Cell(cl.times_used), cer |-> Cell(cl.cer), wer |-> Cell(cl.wer),
     duration |-> Text(cl.duration), domain |-> cl.domain]

\* int(len(self.all_ids) * sample_size), sample_size = num / den
SampleTarget(n, num, den) == (n * num) \div den

\* the least number of examples that is at least len(self.all_ids) * sample_size
SampleMin(n, num, den) == (n * num + den - 1) \div den

\* Curriculum.sample(self.all_ids, ..., min=len(self.all_ids) * sample_size):
\* at least min examples of all_ids, examples repeated when it oversamples
CurriculumSample(idseq, num, den) ==
    IF idseq = <<>> THEN {<<>>}
    ELSE {[i \in 1..n |-> idseq[((i - 1) % Len(idseq)) + 1]] :
            n \in {SampleMin(Len(idseq), num, den),
                   SampleMin(Len(idseq), num, den) + 1,
                   SampleTarget(Len(idseq), num, den) + SubsampleSlack + 1}}

Count(s, x) == Cardinality({i \in 1..Len(s) : s[i] = x})

\* random.sample(population, k): k elements at distinct positions
RandomSample(population, k) ==
    {s \in [1..k -> Range(population)] :
        \A x \in Range(population) : Count(s, x) <= Count(population, x)}

MutNpShuffle(s, epoch) ==
    IF s = <<>> THEN <<>> ELSE [i \in 1..Len(s) |-> s[RandPerm(Len(s), last.n)[i] + 1]]

\* np.random.seed(epoch); np.random.shuffle(self.ids)
NpShuffle(s, epoch) ==
    IF s = <<>> THEN <<>> ELSE [i \in 1..Len(s) |-> s[RandPerm(Len(s), epoch)[i] + 1]]

InitDataset ==
    /\ manifest \in Manifests
    /\ curriculum_file \in CurriculumFiles
    /\ ds = "none"
    /\ all_ids = <<>>
    /\ ids = <<>>
    /\ size = 0
    /\ curriculum = <<>>
    /\ domains = {}
    /\ curriculum0 = <<>>
    /\ sampled = <<>>
    /\ saved = NotSaved
    /\ last = NoCall
    /\ reloaded = NotReloaded
    /\ epoch_calls = {}
    /\ reader = NoReader
    /\ saver = NoSaver
    /\ IdleExceptDataset

\* SpectrogramDataset(audio_conf, manifest_filepath, ..., curriculum_filepath)
Construct ==
    /\ ds = "none"
    /\ \E built \in {Constructed(manifest, curriculum_file)} :
          /\ ds' = built.st
          /\ all_ids' = built.all_ids
          /\ size' = built.size
          /\ curriculum' = built.curriculum
          /\ curriculum0' = built.curriculum
          /\ domains' = built.domains
    /\ ids' = <<>>
    /\ last' = [NoCall EXCEPT !.op = "__init__", !.raised = IF ds' = "ok" THEN "none" ELSE ds']
    /\ UNCHANGED <<manifest, curriculum_file, sampled, saved, reloaded, epoch_calls, reader, saver>>
    /\ UNCHANGED exceptDataset

\* a call on the constructed dataset; the model stops after MaxOps of them
CallAllowed == ds = "ok" /\ last.n < MaxOps

\* the record of a call that is kept in last
Called(op, raised) == [NoCall EXCEPT !.op = op, !.raised = raised, !.n = last.n + 1]

\* what is remembered of a set_curriculum_epoch call: its number, its
\* arguments, the store it ran on, what Curriculum.sample returned, the list
\* it selected and the ids it left
EpochCall(epoch, sample, num, den, chosen, kept, shuffled) ==
    [n |-> last.n + 1, epoch |-> epoch, sample |-> sample, num |-> num, den |-> den,
     curriculum |-> curriculum, sampled |-> chosen, kept |-> kept, ids |-> shuffled]

\* set_curriculum_epoch(epoch, sample, sample_size = num / den)
SetCurriculumEpoch(epoch, sample, num, den) ==
    /\ CallAllowed
    /\ IF sample
       THEN \E chosen \in CurriculumSample(all_ids, num, den) :
              /\ sampled' = chosen
              /\ \E kept \in (IF Len(chosen) > SampleTarget(Len(all_ids), num, den) + SubsampleSlack
                              THEN RandomSample(chosen, SampleTarget(Len(all_ids), num, den))
                              ELSE {chosen}) :
                    /\ ids' = NpShuffle(kept, epoch)
                    /\ epoch_calls' = epoch_calls \cup {EpochCall(epoch, sample, num, den, chosen, kept, ids')}
       ELSE /\ sampled' = <<>>
            /\ ids' = NpShuffle(all_ids, epoch)
            /\ epoch_calls' = epoch_calls \cup {EpochCall(epoch, sample, num, den, <<>>, all_ids, ids')}
    /\ size' = Len(ids')
    /\ last' = [Called("set_curriculum_epoch", "none") EXCEPT
                    !.epoch = epoch, !.sample = sample, !.num = num, !.den = den]
    /\ UNCHANGED <<manifest, curriculum_file, ds, all_ids, curriculum, domains, curriculum0, saved>>
    /\ UNCHANGED <<reloaded, reader, saver>>
    /\ UNCHANGED exceptDataset

MutTimesUsedArg(given) == IF given = <<>> THEN 1 ELSE given[1]

\* times_used=0 in the signature of update_curriculum; the argument is a
\* sequence, empty when the caller omits it
TimesUsedArg(given) == IF given = <<>> THEN 0 ELSE given[1]

\* update_curriculum(audio_path, reference, transcript, offsets, cer, wer, times_used)
UpdateCurriculum(audio_path, times_used) ==
    /\ CallAllowed
    /\ IF audio_path \in DOMAIN curriculum
       THEN /\ curriculum' = Stored(curriculum, audio_path,
                                    UpdatedRecord(curriculum[audio_path], audio_path,
                                                  TimesUsedArg(times_used)))
            /\ last' = [Called("update_curriculum", "none") EXCEPT
                            !.args = <<audio_path, times_used>>]
       ELSE /\ curriculum' = curriculum
            /\ last' = [Called("update_curriculum", "KeyError") EXCEPT
                            !.args = <<audio_path, times_used>>]
    /\ UNCHANGED <<manifest, curriculum_file, ds, all_ids, ids, size, domains, curriculum0,
                   sampled, saved>>
    /\ UNCHANGED <<reloaded, epoch_calls, reader, saver>>
    /\ UNCHANGED exceptDataset

\* save_curriculum(fn)
SaveCurriculum ==
    /\ CallAllowed
    /\ curriculum' = [w \in DOMAIN curriculum |-> WithDomain(curriculum[w])]
    /\ saved' = [written |-> TRUE,
                 rows |-> [w \in DOMAIN curriculum |-> CsvRow(WithDomain(curriculum[w]))],
                 stats |-> <<Cardinality({w \in DOMAIN curriculum : curriculum[w].times_used <= 0}),
                             Cardinality({w \in DOMAIN curriculum : curriculum[w].times_used > 0})>>]
    /\ last' = Called("save_curriculum", "none")
    /\ UNCHANGED <<manifest, curriculum_file, ds, all_ids, ids, size, domains, curriculum0, sampled>>
    /\ UNCHANGED <<reloaded, epoch_calls, reader, saver>>
    /\ UNCHANGED exceptDataset

\* the orders in which the rows of a set can stand in a file
Orderings(S) == {s \in [1..Cardinality(S) -> S] : Range(s) = S}

\* the csv file save_curriculum wrote, as csv.DictReader yields it
SavedFiles ==
    {[given |-> TRUE, rows |-> rs] : rs \in Orderings({saved.rows[w] : w \in DOMAIN saved.rows})}

\* SpectrogramDataset(..., manifest_filepath, curriculum_filepath=fn) right
\* after save_curriculum(fn): a second dataset over the same manifest
ConstructFromSaved ==
    /\ CallAllowed
    /\ last.op = "save_curriculum"
    /\ \E file \in SavedFiles :
          \E built \in {Constructed(manifest, file)} :
              reloaded' = [st |-> built.st, curriculum |-> built.curriculum]
    /\ last' = Called("__init__(fn)", IF reloaded'.st = "ok" THEN "none" ELSE reloaded'.st)
    /\ UNCHANGED <<manifest, curriculum_file, ds, all_ids, ids, size, curriculum, domains,
                   curriculum0, sampled, saved, epoch_calls, reader, saver>>
    /\ UNCHANGED exceptDataset

\* sample_size as a fraction: 0.5 and 1.0
SampleSizes == {<<1, 2>>, <<1, 1>>}

NextDataset ==
    \/ Construct
    \/ \E epoch \in 0..MaxDatasetEpoch, sample \in BOOLEAN, sample_size \in SampleSizes :
          SetCurriculumEpoch(epoch, sample, sample_size[1], sample_size[2])
    \/ \E audio_path \in WavPaths, times_used \in {<<>>, <<1>>} :
          UpdateCurriculum(audio_path, times_used)
    \/ SaveCurriculum
    \/ ConstructFromSaved

SpecDataset == InitDataset /\ [][NextDataset]_vars

\* the target M of the last set_curriculum_epoch call
LastTarget == SampleTarget(Len(all_ids), last.num, last.den)

\* C2: after set_curriculum_epoch(epoch, sample=True, sample_size) whose
\* sampling step returned at least M = int(len(all_ids) * sample_size)
\* examples, ids and len(dataset) hold exactly M examples, drawn without
\* replacement from the sampled ones.
C2_ExactSampleSize ==
    (ds = "ok" /\ last.op = "set_curriculum_epoch" /\ last.sample
        /\ Len(sampled) >= LastTarget) =>
        /\ Len(ids) = LastTarget
        /\ size = LastTarget
        /\ \A x \in Range(ids) : Count(ids, x) <= Count(sampled, x)

FileWavs == {curriculum_file.rows[i].wav : i \in 1..Len(curriculum_file.rows)}

\* C9: the key set of a constructed dataset's curriculum store is the set
\* of manifest paths, whatever calls followed; a curriculum file that
\* covers a non-empty manifest with domains is loaded, its other rows dropped;
\* a curriculum file lacking a manifest path makes construction fail.
C9_KeySetIsManifest ==
    /\ ds = "ok" => DOMAIN curriculum = Wavs(manifest)
    /\ (ds # "none" /\ curriculum_file.given /\ curriculum_file.rows # <<>>
            /\ manifest # <<>> /\ Unpacks(manifest, 4) /\ Wavs(manifest) \subseteq FileWavs) =>
          ds = "ok"
    /\ (ds # "none" /\ curriculum_file.given /\ ~(Wavs(manifest) \subseteq FileWavs)) => ds # "ok"

\* C10 (as claimed): every record's duration and domain, the absence of a
\* domain included, are what they were when the dataset was constructed.
C10_RecordsFrozen ==
    ds = "ok" =>
        \A p \in DOMAIN curriculum :
            /\ curriculum[p].duration = curriculum0[p].duration
            /\ HasDomain(curriculum[p]) = HasDomain(curriculum0[p])
            /\ HasDomain(curriculum0[p]) => curriculum[p].domain = curriculum0[p].domain

\* C10 (amended): the key set and every record's duration are what they
\* were at construction, and so is a domain the record had at construction;
\* a record constructed without a domain stays as constructed until
\* update_curriculum gives it the domain 'default_domain' or save_curriculum
\* the domain 'default', and after save_curriculum every record has one.
C10_DurationDomainKept ==
    ds = "ok" =>
        /\ DOMAIN curriculum = DOMAIN curriculum0
        /\ \A p \in DOMAIN curriculum :
            /\ curriculum[p].duration = curriculum0[p].duration
            /\ HasDomain(curriculum0[p]) =>
                  HasDomain(curriculum[p]) /\ curriculum[p].domain = curriculum0[p].domain
            /\ (~HasDomain(curriculum0[p]) /\ HasDomain(curriculum[p])) =>
                  curriculum[p].domain \in {"default_domain", "default"}
            /\ ~HasDomain(curriculum[p]) => curriculum[p] = curriculum0[p]
            /\ saved.written => HasDomain(curriculum[p])

\* a dataset of a 3-field manifest after an update of one record and a save:
\* one record has the domain of the update, another the domain of the save
C10_Witness ==
    /\ ds = "ok"
    /\ saved.written
    /\ \E p, q \in DOMAIN curriculum :
          /\ ~HasDomain(curriculum0[p]) /\ curriculum[p].domain = "default_domain"
          /\ ~HasDomain(curriculum0[q]) /\ curriculum[q].domain = "default"

\* C11: a dataset constructed from the same manifest and the file that
\* save_curriculum just wrote is constructed without error and holds, for
\* every audio path, the text, transcript, times_used, cer and wer of the
\* saved store, for 3-field and for 4-field manifests (of at least one row).
C11_SaveLoadRoundTrip ==
    (last.op = "__init__(fn)" /\ manifest # <<>>) =>
        /\ reloaded.st = "ok"
        /\ DOMAIN reloaded.curriculum = DOMAIN curriculum
        /\ \A p \in DOMAIN curriculum :
              /\ reloaded.curriculum[p].text = curriculum[p].text
              /\ reloaded.curriculum[p].transcript = curriculum[p].transcript
              /\ reloaded.curriculum[p].times_used = curriculum[p].times_used
              /\ reloaded.curriculum[p].cer = curriculum[p].cer
              /\ reloaded.curriculum[p].wer = curriculum[p].wer

SameArguments(c, d) ==
    /\ c.epoch = d.epoch
    /\ c.sample = d.sample
    /\ c.num = d.num
    /\ c.den = d.den
    /\ c.curriculum = d.curriculum

BatchSets(bs) == {Range(bs[i]) : i \in 1..Len(bs)}

\* C13: after shuffle(epoch) the bin order, and with it the bins every rank
\* receives, is the one the epoch and the initial bins determine, whatever
\* shuffle calls were made before; the set of indices of each batch never
\* changes.
C13_ShuffleReproducible ==
    /\ last_shuffle # -1 =>
          /\ [i \in 1..Len(bins) |-> Range(bins[i])] =
                [i \in 1..Len(bins) |-> Range(ShuffledBins(bins0, last_shuffle)[i])]
          /\ \A r \in DOMAIN samples :
                samples[r].st = "ok" =>
                    samples[r] = IterResult(ShuffledBins(bins0, last_shuffle), total_size,
                                            num_replicas, r)
    /\ BatchSets(bins) = BatchSets(bins0)

(***************************************************************************)
(* BucketingLenSampler over the examples a dataset has selected.           *)
(* data_source.ids holds manifest items, whose duration is the str that    *)
(* csv.reader read; len(data_source) is data_source.size.                  *)
(***************************************************************************)
MaxSelected == 3

\* the decimal digits of the text of a duration
RECURSIVE Digits(_)
Digits(n) == IF n < 10 THEN <<n>> ELSE Append(Digits(n \div 10), n % 10)

\* x < y for two Python str: the order of the first differing character, a
\* proper prefix first
StrLess(x, y) ==
    LET dx == Digits(x.str)
        dy == Digits(y.str)
    IN  \/ \E k \in 1..Min(Len(dx), Len(dy)) :
              /\ \A j \in 1..(k - 1) : dx[j] = dy[j]
              /\ dx[k] < dy[k]
        \/ Len(dx) < Len(dy) /\ \A j \in 1..Len(dx) : dx[j] = dy[j]

\* [_id for _, _id in sorted(zip(durations, ids), key=lambda pair: pair[0])]:
\* a stable sort of the positions by the duration as item[2] holds it
SortedByDuration(durations) ==
    CHOOSE s \in [1..Len(durations) -> 0..(Len(durations) - 1)] :
        /\ Range(s) = 0..(Len(durations) - 1)
        /\ \A i, j \in 1..Len(durations) :
              i < j => \/ StrLess(durations[s[i] + 1], durations[s[j] + 1])
                       \/ /\ ~StrLess(durations[s[j] + 1], durations[s[i] + 1])
                          /\ s[i] < s[j]

\* the manifest items a dataset can have selected
SelectedItems ==
    {<<"a.wav", "a.txt", PyStr(10)>>, <<"b.wav", "b.txt", PyStr(9)>>,
     <<"c.wav", "c.txt", PyStr(100)>>, <<"d.wav", "d.txt", PyStr(9)>>}

\* a dataset after set_curriculum_epoch (size = len(ids)) or, with ids
\* still empty, right after its construction (size = len(all_ids))
InitLenSampler ==
    /\ sampler_class = "none"
    /\ bins0 = <<>>
    /\ last_shuffle = -1
    /\ bins = <<>>
    /\ num_replicas = 0
    /\ num_samples = 0
    /\ total_size = 0
    /\ samples = <<>>
    /\ ids \in UNION {[1..n -> SelectedItems] : n \in 0..MaxSelected}
    /\ size \in (IF ids = <<>> THEN 0..MaxSelected ELSE {Len(ids)})
    /\ manifest = <<>>
    /\ curriculum_file = NoFile
    /\ ds = "ok"
    /\ all_ids = <<>>
    /\ curriculum = <<>>
    /\ domains = {}
    /\ curriculum0 = <<>>
    /\ sampled = <<>>
    /\ saved = NotSaved
    /\ last = NoCall
    /\ reloaded = NotReloaded
    /\ epoch_calls = {}
    /\ reader = NoReader
    /\ saver = NoSaver
    /\ RollIdle /\ CollateIdle /\ LabelsIdle /\ ParserIdle /\ TranscriptIdle

\* BucketingLenSampler(data_source, batch_size)
LenSamplerInit(batch_size) ==
    /\ sampler_class = "none"
    /\ IF Len(ids) # size
       THEN /\ sampler_class' = "AssertionError"
            /\ bins' = <<>>
       ELSE /\ sampler_class' = "BucketingLenSampler"
            /\ bins' = MakeBins(SortedByDuration([i \in 1..Len(ids) |-> ids[i][3]]), batch_size)
    /\ bins0' = bins'
    /\ UNCHANGED <<last_shuffle, num_replicas, num_samples, total_size, samples>>
    /\ UNCHANGED <<rollVars, collateVars, labelVars, parserVars, datasetVars, transcriptVars>>

\* BucketingLenSampler.shuffle(epoch): np.random.shuffle(self.bins)
LenShuffle(epoch) ==
    /\ sampler_class = "BucketingLenSampler"
    /\ bins' \in Shuffles(bins)
    /\ last_shuffle' = epoch
    /\ UNCHANGED <<sampler_class, bins0, num_replicas, num_samples, total_size, samples>>
    /\ UNCHANGED exceptSampler

\* BucketingLenSampler.__iter__, run to its end: every bin is shuffled in
\* place and yielded
LenIter ==
    /\ sampler_class = "BucketingLenSampler"
    /\ bins' \in {bs \in [1..Len(bins) -> UNION {Shuffles(bins[i]) : i \in 1..Len(bins)}] :
                    \A i \in 1..Len(bins) : bs[i] \in Shuffles(bins[i])}
    /\ samples' = (0 :> [st |-> "yielded", bins |-> bins'])
    /\ UNCHANGED <<sampler_class, bins0, last_shuffle, num_replicas, num_samples, total_size>>
    /\ UNCHANGED exceptSampler

NextLenSampler ==
    \/ \E batch_size \in 1..MaxBatch : LenSamplerInit(batch_size)
    \/ \E epoch \in 0..MaxEpoch : LenShuffle(epoch)
    \/ LenIter

SpecLenSampler == InitLenSampler /\ [][NextLenSampler]_vars

\* the duration of the selected example at a Python index, in seconds
DurationAt(index) == Number(ids[index + 1][3])

\* C14: at construction BucketingLenSampler's bins hold the selected
\* examples in ascending order of their numeric duration: every example of
\* a bin is at most as long as every example of the next bin.
C14_BinsAscendingDuration ==
    sampler_class = "BucketingLenSampler" =>
        \A k \in 1..(Len(bins0) - 1) :
            \A x \in Range(bins0[k]), y \in Range(bins0[k + 1]) :
                DurationAt(x) <= DurationAt(y)

\* C15: a manifest (of at least one row, loaded without a curriculum file)
\* whose rows each have 3 or 4 fields is accepted and gives one example per
\* row, the domain being optional per row; a row with any other number of
\* fields makes the construction fail.
C15_ManifestFormats ==
    (ds # "none" /\ ~curriculum_file.given /\ manifest # <<>>) =>
        /\ (\A i \in 1..Len(manifest) : RowOk(manifest[i])) =>
              /\ ds = "ok"
              /\ all_ids = manifest
        /\ (\E i \in 1..Len(manifest) : ~RowOk(manifest[i])) => ds # "ok"

\* C16: whatever the order in which workers compute a cache key and look it
\* up, a lookup returns nothing or a completely written feature matrix, and
\* once two workers that computed the same key (the tempo variant 1.0 of one
\* file) have finished, the cache holds that key with the complete result
\* of one of them.
C16_AtomicCacheWrites ==
    /\ \A i \in 1..Len(calls) :
          calls[i].op = "load_audio_cache" =>
              \/ calls[i].res = NoSpect
              \/ calls[i].res.st = "ok" /\ Len(calls[i].res.spect) = FreqBins
    /\ \A i, j \in 1..Len(calls) :
          (i < j /\ calls[i].op = "parse_audio" /\ calls[j].op = "parse_audio"
               /\ SameKey(calls[i], calls[j]) /\ calls[i].tempo_id = 0
               /\ calls[i].res.st = "ok" /\ calls[j].res.st = "ok") =>
              /\ CacheFn(calls[i].audio_path, 0) \in DOMAIN cache
              /\ cache[CacheFn(calls[i].audio_path, 0)].st = "ok"
              /\ cache[CacheFn(calls[i].audio_path, 0)].spect \in
                    {calls[i].res.spect, calls[j].res.spect}

(***************************************************************************)
(* The curriculum store under concurrent use: update_curriculum calls     *)
(* interleaved with a get_curriculum_info call and a save_curriculum call, *)
(* each of which proceeds one lookup at a time.                            *)
(***************************************************************************)
\* a dataset constructed from a manifest without a curriculum file
InitStore ==
    /\ manifest \in {m \in Manifests : Constructed(m, NoFile).st = "ok"}
    /\ curriculum_file = NoFile
    /\ ds = "ok"
    /\ all_ids = manifest
    /\ ids = <<>>
    /\ size = Len(manifest)
    /\ curriculum = Constructed(manifest, NoFile).curriculum
    /\ domains = Constructed(manifest, NoFile).domains
    /\ curriculum0 = curriculum
    /\ sampled = <<>>
    /\ saved = NotSaved
    /\ last = [NoCall EXCEPT !.op = "__init__"]
    /\ reloaded = NotReloaded
    /\ epoch_calls = {}
    /\ reader = NoReader
    /\ saver = NoSaver
    /\ IdleExceptDataset

readerFrame ==
    <<manifest, curriculum_file, ds, all_ids, ids, size, curriculum, domains, curriculum0,
      sampled, saved, last, reloaded, epoch_calls, saver>>

\* get_curriculum_info(item), up to the test audio_path not in self.curriculum
GetInfoBegin(item) ==
    /\ reader.pc = "idle"
    /\ reader' = IF item[1] \notin DOMAIN curriculum
                 THEN [NoReader EXCEPT !.pc = "done", !.item = item, !.text = "reference",
                                       !.cer = InitialCer, !.times_used = 0]
                 ELSE [NoReader EXCEPT !.pc = "text", !.item = item]
    /\ UNCHANGED readerFrame
    /\ UNCHANGED exceptDataset

\* self.curriculum[audio_path]['text']
GetInfoText ==
    /\ reader.pc = "text"
    /\ reader' = [reader EXCEPT !.pc = "cer", !.text = curriculum[reader.item[1]].text,
                                !.from = Append(reader.from, curriculum[reader.item[1]])]
    /\ UNCHANGED readerFrame
    /\ UNCHANGED exceptDataset

\* self.curriculum[audio_path]['cer']
GetInfoCer ==
    /\ reader.pc = "cer"
    /\ reader' = [reader EXCEPT !.pc = "times_used", !.cer = curriculum[reader.item[1]].cer,
                                !.from = Append(reader.from, curriculum[reader.item[1]])]
    /\ UNCHANGED readerFrame
    /\ UNCHANGED exceptDataset

\* self.curriculum[audio_path]['times_used'], and the return of the tuple
GetInfoTimesUsed ==
    /\ reader.pc = "times_used"
    /\ reader' = [reader EXCEPT !.pc = "done",
                                !.times_used = curriculum[reader.item[1]].times_used,
                                !.from = Append(reader.from, curriculum[reader.item[1]])]
    /\ UNCHANGED readerFrame
    /\ UNCHANGED exceptDataset

saverFrame ==
    <<manifest, curriculum_file, ds, all_ids, ids, size, domains, curriculum0, sampled, last,
      reloaded, epoch_calls, reader>>

\* save_curriculum(fn) up to the loop: the file is opened, the header written
SaveBegin ==
    /\ saver.pc = "idle"
    /\ \E order \in Orderings(DOMAIN curriculum) :
          saver' = [pc |-> "rows", todo |-> order, rows |-> <<>>]
    /\ UNCHANGED <<curriculum, saved>>
    /\ UNCHANGED saverFrame
    /\ UNCHANGED exceptDataset

\* one turn of for cl in self.curriculum.values(): the record found under
\* the key gets its domain and is written as a row
SaveRow ==
    /\ saver.pc = "rows"
    /\ saver.todo # <<>>
    /\ curriculum' = [curriculum EXCEPT ![Head(saver.todo)] = WithDomain(@)]
    /\ saver' = [saver EXCEPT !.todo = Tail(@),
                              !.rows = Append(@, CsvRow(WithDomain(curriculum[Head(saver.todo)])))]
    /\ UNCHANGED saved
    /\ UNCHANGED saverFrame
    /\ UNCHANGED exceptDataset

\* the end of the loop: the file is closed and the statistics written
SaveEnd ==
    /\ saver.pc = "rows"
    /\ saver.todo = <<>>
    /\ saver' = [saver EXCEPT !.pc = "done"]
    /\ saved' = [written |-> TRUE,
                 rows |-> [w \in {saver.rows[i].wav : i \in 1..Len(saver.rows)} |->
                             saver.rows[CHOOSE i \in 1..Len(saver.rows) : saver.rows[i].wav = w]],
                 stats |-> <<Cardinality({i \in 1..Len(saver.rows) :
                                            Number(saver.rows[i].times_used) <= 0}),
                             Cardinality({i \in 1..Len(saver.rows) :
                                            Number(saver.rows[i].times_used) > 0})>>]
    /\ UNCHANGED curriculum
    /\ UNCHANGED saverFrame
    /\ UNCHANGED exceptDataset

NextStore ==
    \/ \E audio_path \in WavPaths, times_used \in {<<>>, <<1>>} :
          UpdateCurriculum(audio_path, times_used)
    \/ \E i \in 1..Len(all_ids) : GetInfoBegin(all_ids[i])
    \/ GetInfoText
    \/ GetInfoCer
    \/ GetInfoTimesUsed
    \/ SaveBegin
    \/ SaveRow
    \/ SaveEnd

SpecStore == InitStore /\ [][NextStore]_vars

\* the records the store can hold for a path: the one of the construction
\* and the ones update_curriculum makes, with the domain save_curriculum adds
WholeRecords(audio_path) ==
    LET made == {curriculum0[audio_path]} \cup
                {UpdatedRecord(old, audio_path, times_used) :
                    old \in {curriculum0[audio_path], WithDomain(curriculum0[audio_path])},
                    times_used \in {0, 1}}
    IN  made \cup {WithDomain(rec) : rec \in made}

\* C17 (as claimed): the text, cer and times_used that get_curriculum_info
\* returns for a path come from one record of the store, and so does every
\* row save_curriculum writes, however update_curriculum calls interleave.
C17_NoTornRead ==
    /\ reader.pc = "done" =>
          \E rec \in WholeRecords(reader.item[1]) :
              /\ reader.text = rec.text
              /\ reader.cer = rec.cer
              /\ reader.times_used = rec.times_used
    /\ \A i \in 1..Len(saver.rows) :
          saver.rows[i] \in {CsvRow(WithDomain(rec)) : rec \in WholeRecords(saver.rows[i].wav)}

\* C17 (amended): the store holds, for every path and at every moment, the
\* whole record of the construction or of one update, and every row that
\* save_curriculum writes is the row of one such record; the three values
\* of get_curriculum_info are each read from such a record, in three
\* lookups that can find three different records.
C17_WholeRecords ==
    /\ \A p \in DOMAIN curriculum : curriculum[p] \in WholeRecords(p)
    /\ \A i \in 1..Len(saver.rows) :
          saver.rows[i] \in {CsvRow(WithDomain(rec)) : rec \in WholeRecords(saver.rows[i].wav)}
    /\ \A i \in 1..Len(reader.from) : reader.from[i] \in WholeRecords(reader.item[1])
    /\ reader.pc = "done" =>
          /\ Len(reader.from) = 3
          /\ reader.text = reader.from[1].text
          /\ reader.cer = reader.from[2].cer
          /\ reader.times_used = reader.from[3].times_used

\* an update landed between two lookups of a get_curriculum_info call and
\* between two rows of a save_curriculum call, and both calls have returned
C17_Witness ==
    /\ reader.pc = "done"
    /\ reader.from[1] # reader.from[2]
    /\ saver.pc = "done"
    /\ \E i, j \in 1..Len(saver.rows) :
          saver.rows[i].text = "" /\ saver.rows[j].text = "ref1"

\* C18: for every vocabulary of the segmenter, the pieces '_', '2' and ' '
\* included, the table of Labels maps the blank '_' to code 0, gives the
\* repeat code '2' and the space ' ' a code no other key has, and is
\* injective: the inverse table has one entry for each code 0..len-1.
C18_LabelTable ==
    encoder = "Labels" =>
        LET keys == Range(labels_map.keys)
        IN  /\ labels_map.val[<<"_">>] = 0
            /\ \A k \in keys \ { <<"2">> } : labels_map.val[k] # labels_map.val[<<"2">>]
            /\ \A k \in keys \ { <<" ">> } : labels_map.val[k] # labels_map.val[<<" ">>]
            /\ \A k, l \in keys : labels_map.val[k] = labels_map.val[l] => k = l
            /\ DOMAIN DictReverse(labels_map) = 0..(Len(labels_map.keys) - 1)

\* the pieces of a segmenter output that are not markers
NonMarkers(toks) == SelectSeq(toks, LAMBDA q : q \notin remove_sp_tokens)

\* C19: Labels.parse drops the markers <unk>, <s> and </s>: it raises no
\* error, wherever a marker occurs, and returns exactly one code for each
\* piece that is not a marker.
C19_MarkersDropped ==
    (encoder = "Labels" /\ transcript.st # "none" /\ ~NoMarkers
        /\ \A i \in 1..Len(sp_transcript) :
               sp_transcript[i] \in remove_sp_tokens \cup {sp_space_token}
                                    \cup Range(labels_map.keys)) =>
        /\ transcript.st = "ok"
        /\ Len(transcript.codes) = Len(NonMarkers(sp_transcript))

\* the piece has a code of its own in the table: it is neither a marker nor
\* the space piece of the segmenter
IsCoded(token) ==
    token \notin remove_sp_tokens /\ token # sp_space_token /\ DictHas(labels_map, token)

\* the codes hold x, y, z at three consecutive positions
HasRun(codes, x, y, z) ==
    \E j \in 1..(Len(codes) - 2) : codes[j] = x /\ codes[j + 1] = y /\ codes[j + 2] = z

\* C20: when two consecutive pieces of a word have the same code c, the
\* output of Labels.parse holds c, the repeat code, c; the output never holds
\* two equal codes other than the space code next to each other; two equal
\* pieces separated by the space piece are emitted as c, space code, c
\* (stated for the segmentations without marker pieces, which C19 is about).
C20_DuplicateEscape ==
    (encoder = "Labels" /\ transcript.st = "ok" /\ NoMarkers) =>
        /\ \A i \in 1..(Len(sp_transcript) - 1) :
              (IsCoded(sp_transcript[i]) /\ sp_transcript[i + 1] = sp_transcript[i]) =>
                  HasRun(transcript.codes, labels_map.val[sp_transcript[i]], RepeatCode,
                         labels_map.val[sp_transcript[i]])
        /\ \A j \in 1..(Len(transcript.codes) - 1) :
              transcript.codes[j] = transcript.codes[j + 1] => transcript.codes[j] = SpaceCode
        /\ \A i \in 1..(Len(sp_transcript) - 2) :
              (IsCoded(sp_transcript[i]) /\ sp_transcript[i + 1] = sp_space_token
                  /\ sp_transcript[i + 2] = sp_transcript[i]) =>
                  \E j \in 1..(Len(transcript.codes) - 1) :
                      /\ transcript.codes[j] = SpaceCode
                      /\ transcript.codes[j + 1] = labels_map.val[sp_transcript[i]]

\* C21: _collate_fn_phoneme falls back to _collate_fn whenever an element
\* of the batch is a 3-tuple (has no phoneme target), at whatever position,
\* and returns a batch instead of raising.
C21_PhonemeFallback ==
    (collate_fn = "_collate_fn_phoneme" /\ collated.st # "none"
        /\ \E i \in 1..Len(batch) : Len(batch[i]) = 3) =>
        /\ collated.st = "ok"
        /\ collated = _collate_fn(batch)

\* sample[1], and its first component (the ctc target) under double supervision
TargetOf(fn, sample) == IF fn = "_collate_fn_double" THEN sample[2][1] ELSE sample[2]

\* C22: in every collated batch targets is the concatenation of the
\* examples' targets in row order, target_sizes[i] is the length of row i's
\* target, the sizes sum to len(targets), filenames[i] names the example
\* whose features are in row i, and examples of equal length keep their
\* input order.
C22_CollateAligned ==
    collated.st = "ok" =>
        LET n == Len(batch)
            src(x) == batch[SourceOf(x)]
        IN  /\ Len(collated.filenames) = n
            /\ Len(collated.target_sizes) = n
            /\ {SourceOf(x) : x \in 1..n} = 1..n
            /\ collated.targets = Flatten([x \in 1..n |-> TargetOf(collate_fn, src(x))])
            /\ \A x \in 1..n : collated.target_sizes[x] = Len(TargetOf(collate_fn, src(x)))
            /\ Sum(collated.target_sizes, n) = Len(collated.targets)
            /\ \A x \in 1..n : \A f \in 1..CollateFreq : \A t \in 1..SeqLen(collate_fn, src(x)) :
                  collated.inputs[x][1][f][t] = SpectOf(collate_fn, src(x))[f][t]
            /\ \A x, y \in 1..n :
                  (x < y /\ SeqLen(collate_fn, src(x)) = SeqLen(collate_fn, src(y))) =>
                      SourceOf(x) < SourceOf(y)
            /\ collate_fn = "_collate_fn_double" =>
                  /\ collated.s2s_targets = Flatten([x \in 1..n |-> src(x)[2][2]])
                  /\ \A x \in 1..n : collated.s2s_target_sizes[x] = Len(src(x)[2][2])

\* a batch handed over out of order, with two examples of equal length and
\* three different targets, has been collated
C22_Witness ==
    /\ collated.st = "ok"
    /\ collate_fn \in {"_collate_fn", "_collate_fn_double"}
    /\ BatchLens = <<1, 2, 2>>
    /\ collated.filenames = <<"b.wav", "c.wav", "a.wav">>
    /\ collated.target_sizes = <<2, 0, 1>>

\* C23: for every bin count B >= 1 and replica count R >= 1 the padded bin
\* list of DistributedBucketingSampler.__iter__ has ceil(B/R) * R bins, so
\* its assertion holds, and every rank yields __len__() = ceil(B/R) bins.
C23_PaddingReachesTotal ==
    sampler_class = "DistributedBucketingSampler" =>
        LET B == Len(bins)
            R == num_replicas
            ceil == (B + R - 1) \div R
        IN  /\ num_samples = ceil
            /\ total_size = ceil * R
            /\ \A r \in 0..(R - 1) :
                  samples[r].st # "none" =>
                      /\ Len(PaddedBins(bins, total_size)) = total_size
                      /\ samples[r].st = "ok"
                      /\ Len(samples[r].bins) = num_samples

(***************************************************************************)
(* BucketingSampler and BucketingLenSampler together.                      *)
(***************************************************************************)
InitBuckets == InitBucketing \/ InitLenSampler

NextBuckets ==
    \/ BucketIter
    \/ \E epoch \in 0..MaxEpoch : BucketShuffle(epoch)
    \/ NextLenSampler

SpecBuckets == InitBuckets /\ [][NextBuckets]_vars

\* C24: after any sequence of shuffle calls and iterations of a
\* BucketingSampler or BucketingLenSampler every index 0..n-1 is in exactly
\* one bin, an iteration has yielded every bin exactly once, and all bins
\* have the same size except at most one smaller bin.
C24_BinsPartition ==
    sampler_class \in {"BucketingSampler", "BucketingLenSampler"} =>
        LET all == Flatten(bins)
            n == Len(Flatten(bins0))
            full == SeqMax([k \in 1..Len(bins) |-> Len(bins[k])])
        IN  /\ Len(all) = n
            /\ Range(all) = 0..(n - 1)
            /\ sampler_class = "BucketingLenSampler" => n = size
            /\ samples # <<>> =>
                  /\ Len(samples[0].bins) = Len(bins)
                  /\ \A k \in 1..Len(bins) :
                        Cardinality({j \in 1..Len(bins) :
                                        Range(samples[0].bins[j]) = Range(bins[k])}) = 1
            /\ bins # <<>> =>
                  /\ full <= MaxBatch
                  /\ Cardinality({k \in 1..Len(bins) : Len(bins[k]) < full}) <= 1

\* a BucketingLenSampler with a smaller bin, shuffled so that the smaller
\* bin comes first, and iterated
C24_Witness ==
    /\ sampler_class = "BucketingLenSampler"
    /\ Len(bins) = 2
    /\ Len(bins[1]) = 1
    /\ Len(bins[2]) = 2
    /\ bins0 # bins
    /\ samples # <<>>
    /\ samples[0].bins = bins

\* the words of a text as PhonemeLabels.parse splits them, each word a
\* sequence of phoneme tokens
PhonemeWordsOf(tx) ==
    LET words == Split(SelectSeq(tx, LAMBDA c : c \notin Punctuation /\ c \in PhonemePrintable), " ")
    IN  [w \in 1..Len(words) |-> Split(words[w], "-")]

\* the number of tokens of the words that are keys of the phoneme map
PresentTokens(pm, ws) ==
    Sum([w \in 1..Len(ws) |-> Cardinality({i \in 1..Len(ws[w]) : ws[w][i] \in DOMAIN pm})], Len(ws))

\* the result has one code for each token of the text that is in the map,
\* none for any other token, and one space code between two words
OmitsAbsent(pm, tx, result) ==
    /\ result.st = "ok"
    /\ Len(result.codes) = PresentTokens(pm, PhonemeWordsOf(tx)) + Len(PhonemeWordsOf(tx)) - 1

\* C25: PhonemeLabels.parse omits the symbols that are not in the phoneme
\* map: it raises no error, also when the first token is absent, and
\* returns exactly one code for each token that is in the map.
C25_AbsentOmitted ==
    (encoder = "PhonemeLabels" /\ transcript.st # "none") =>
        OmitsAbsent(phoneme_map, text, transcript)

\* the result encodes the first two phonemes of every word with their own
\* codes, equal or not, and every later phoneme with the repeat code when
\* its code equals the code emitted just before it
EscapesFromThird(pm, tx, result) ==
    LET ws == PhonemeWordsOf(tx)
        off(w) == Sum([v \in 1..Len(ws) |-> Len(ws[v]) + 1], w - 1)
    IN  /\ result.st = "ok"
        /\ Len(result.codes) = off(Len(ws)) + Len(ws[Len(ws)])
        /\ \A w \in 1..Len(ws) : \A i \in 1..Len(ws[w]) :
              result.codes[off(w) + i] =
                  IF i > 2 /\ result.codes[off(w) + i - 1] = pm[ws[w][i]]
                  THEN pm[<<"2">>] ELSE pm[ws[w][i]]

\* C26: PhonemeLabels.parse never escapes a duplicate at position 1 of a
\* word: a word whose first two phonemes are equal is encoded with the same
\* code twice, while a phoneme at position 2 or later whose code equals the
\* code emitted just before it is replaced by the repeat code (stated for
\* the texts whose tokens are all in the map; C25 is about the others).
C26_NoEscapeAtPositionOne ==
    (encoder = "PhonemeLabels" /\ transcript.st # "none"
        /\ \A w \in 1..Len(PhonemeWordsOf(text)) : \A i \in 1..Len(PhonemeWordsOf(text)[w]) :
               PhonemeWordsOf(text)[w][i] \in DOMAIN phoneme_map) =>
        EscapesFromThird(phoneme_map, text, transcript)

\* C27: update_curriculum(p, ...) changes the record of p only: all other
\* records and the key set stay; the new record holds the text, transcript,
\* offsets, cer, wer and times_used of the call, times_used 0 when the call
\* omits it; a call for a path that is not in the store raises and leaves
\* the store as it was.
C27_UpdateFrame ==
    [][(last'.op = "update_curriculum" /\ last'.n = last.n + 1) =>
          LET p == last'.args[1]
          IN  IF p \in DOMAIN curriculum
              THEN /\ last'.raised = "none"
                   /\ DOMAIN curriculum' = DOMAIN curriculum
                   /\ \A q \in DOMAIN curriculum \ {p} : curriculum'[q] = curriculum[q]
                   /\ curriculum'[p].text = "ref1" /\ curriculum'[p].transcript = "hyp1"
                   /\ curriculum'[p].offsets = "off1"
                   /\ curriculum'[p].cer = 100 /\ curriculum'[p].wer = 200
                   /\ curriculum'[p].times_used =
                         (IF last'.args[2] = <<>> THEN 0 ELSE last'.args[2][1])
              ELSE /\ last'.raised # "none"
                   /\ curriculum' = curriculum]_vars

\* a call that omits times_used has reset the count of a record in which a
\* get_curriculum_info call had found the count 1 of an earlier call, in a
\* store that holds another, untouched record
C27_Witness ==
    /\ last.op = "update_curriculum"
    /\ last.raised = "none"
    /\ last.n >= 2
    /\ last.args[2] = <<>>
    /\ Cardinality(DOMAIN curriculum) = 2
    /\ curriculum[last.args[1]].times_used = 0
    /\ reader.item # <<>>
    /\ reader.item[1] = last.args[1]
    /\ \E i \in 1..Len(reader.from) : reader.from[i].times_used = 1
    /\ \E q \in DOMAIN curriculum : curriculum[q].text = ""

(***************************************************************************)
(* A dataset and the BucketingLenSampler built over it: the sampler is     *)
(* constructed at any moment, before or after set_curriculum_epoch calls,  *)
(* and the dataset goes on selecting.                                      *)
(***************************************************************************)
MaxEpochCalls == 2

NextEpochs ==
    \/ /\ last.n < MaxEpochCalls
       /\ \E epoch \in 0..MaxDatasetEpoch, sample \in BOOLEAN, sample_size \in SampleSizes :
             SetCurriculumEpoch(epoch, sample, sample_size[1], sample_size[2])
    \/ NextLenSampler

SpecEpochs == InitStore /\ [][NextEpochs]_vars

\* the list __getitem__ indexes: all_ids while ids is empty, ids otherwise
Indexable == IF Len(ids) = 0 THEN all_ids ELSE ids

\* C28: after any later set_curriculum_epoch call every index of a
\* BucketingLenSampler is a valid position of the dataset's selection and
\* denotes the example whose duration placed it in its bin: the bins are
\* the ones the durations of the current selection give.
C28_SamplerFollowsDataset ==
    sampler_class = "BucketingLenSampler" =>
        /\ \A k \in 1..Len(bins) : \A x \in Range(bins[k]) : x < Len(Indexable)
        /\ \E batch_size \in 1..MaxBatch :
              bins0 = MakeBins(SortedByDuration([i \in 1..Len(ids) |-> ids[i][3]]), batch_size)

\* C29: len(dataset) is the number of examples __getitem__ can index,
\* len(all_ids) before a selection and len(ids) after it, and the
\* constructor of BucketingLenSampler never fails its assertion, also on a
\* dataset on which set_curriculum_epoch was never called.
C29_LenMatchesIndexable ==
    /\ ds = "ok" => size = Len(IF epoch_calls = {} THEN all_ids ELSE ids)
    /\ sampler_class # "AssertionError"

(***************************************************************************)
(* parse_transcript and the module-level TS_CACHE: two datasets of one     *)
(* process, each with its own label encoder, parse transcript files.       *)
(***************************************************************************)
MaxParses == 3

TranscriptPaths == {"", "a.txt", "b.txt"}

TranscriptTexts == {<<"a", " ", "b">>, <<"a", "a">>}

\* what self.labels.parse(text) can return for the encoder of a vocabulary
Encodings(vocab, tx) ==
    {ParseTokens(BuildLabelsMap(vocab), toks, 1, <<>>, -1) :
        toks \in SegmenterOutputs(CleanText(tx), vocab)}

\* the text parse_transcript hands to the encoder: '' for an empty path,
\* the content of the file otherwise
TranscriptText(transcript_path) ==
    IF transcript_path = "" THEN <<>> ELSE ts_files[transcript_path]

InitTranscripts ==
    /\ TS_CACHE = <<>>
    /\ ts_labels \in [1..2 -> Vocabularies]
    /\ ts_files \in [TranscriptPaths \ {""} -> TranscriptTexts]
    /\ ts_call = NoTranscriptCall
    /\ SamplerIdle /\ RollIdle /\ CollateIdle /\ LabelsIdle /\ ParserIdle /\ DatasetIdle

\* dataset.parse_transcript(transcript_path)
ParseTranscript(dataset, transcript_path) ==
    /\ ts_call.n < MaxParses
    /\ IF transcript_path \notin DOMAIN TS_CACHE
       THEN \E ts \in Encodings(ts_labels[dataset], TranscriptText(transcript_path)) :
              IF ts.st = "ok"
              THEN /\ TS_CACHE' = (transcript_path :> ts.codes) @@ TS_CACHE
                   /\ ts_call' = [n |-> ts_call.n + 1, dataset |-> dataset,
                                  path |-> transcript_path, st |-> "ok", codes |-> ts.codes]
              ELSE /\ TS_CACHE' = TS_CACHE
                   /\ ts_call' = [n |-> ts_call.n + 1, dataset |-> dataset,
                                  path |-> transcript_path, st |-> ts.st, codes |-> <<>>]
       ELSE /\ TS_CACHE' = TS_CACHE
            /\ ts_call' = [n |-> ts_call.n + 1, dataset |-> dataset, path |-> transcript_path,
                           st |-> "ok", codes |-> TS_CACHE[transcript_path]]
    /\ UNCHANGED <<ts_labels, ts_files>>
    /\ UNCHANGED <<samplerVars, rollVars, collateVars, labelVars, parserVars, datasetVars>>

NextTranscripts ==
    \E dataset \in 1..2, transcript_path \in TranscriptPaths :
        ParseTranscript(dataset, transcript_path)

SpecTranscripts == InitTranscripts /\ [][NextTranscripts]_vars

\* C30: parse_transcript(path) on a dataset returns the encoding of the
\* file's text under the label encoder of that dataset, whichever dataset
\* parsed the path before and however often it was parsed.
C30_OwnEncoder ==
    ts_call.st # "none" =>
        [st |-> ts_call.st, codes |-> ts_call.codes] \in
            Encodings(ts_labels[ts_call.dataset], TranscriptText(ts_call.path))
====
